---- MODULE Spec2Model ----
(***************************************************************************)
(* Model of nextdoor_complete.py: one scan run of NextdoorScanner          *)
(* (run_scan -> _login_to_nextdoor -> search -> scroll/collect -> Groq     *)
(* filtering -> report), with the GitHub-Gist 2FA channel and the Groq     *)
(* API-key rotation.  The browser, the gist store, the mail server and the *)
(* Groq service are the environment: each of their answers is a            *)
(* nondeterministic choice.                                                *)
(***************************************************************************)
EXTENDS Integers, Sequences, FiniteSets, TLC

\* ------------------------------------------------------------------ bounds
MaxKeys == 3        \* largest number of API keys in the pool
MaxBudget == 4      \* largest max_scrolls argument explored
MaxSearches == 3    \* most _search_for_term calls of one caller
MaxVisible == 2     \* largest number of posts one extraction sees
MaxContainers == 2  \* largest number of containers on one page

\* ------------------------------------------------------- program constants
max_attempts == 6            \* gist polls in _wait_for_2fa_code
SleepSeconds == 30           \* time.sleep(30) between two polls
ManualWaitSeconds == 60      \* range(60) of the manual 2FA wait
StagnationLimit == 3
ForcedScrolls == 3         \* no_new_posts_count >= 3
KeyLen == 50                 \* post['text'][:50]
CodeLen == 6                 \* len(code) != 6

VARIABLES
    pc,                  \* position of the single thread of control
    result,              \* value returned by run_scan: "none", "true", "false"
    driver,              \* self.driver: "none", "open", "quit"
    quitCalls,           \* number of driver.quit() calls
    interrupted,         \* a KeyboardInterrupt ended the run
    is_github_actions,   \* os.getenv('GITHUB_ACTIONS') == 'true'
    github_token,        \* self.github_token is set
    nKeys,               \* len(self.groq_client.api_keys)
    max_scrolls,         \* argument of _scroll_and_collect_posts
    feed,                \* texts of the posts the site has for the search
    session,             \* SessionState reached by the login part
    submitted,           \* the login button has been clicked
    url,                 \* last value read from driver.current_url
    loginCalls,          \* number of _login_to_nextdoor calls
    current_gist_id,     \* self.current_gist_id
    docCreated,          \* a gist was created in this run
    docExists,           \* the gist exists in the remote store
    attempt,             \* local attempt of _wait_for_2fa_code
    waitReturn,          \* value _wait_for_2fa_code is about to return
    waitExit,            \* how _wait_for_2fa_code was left
    deleteRequests,      \* DELETE requests issued
    notifications,       \* 2FA notification mails attempted
    pollReads,           \* GET requests issued by _poll_gist_for_code
    failedReads,         \* those of them that failed (status or error)
    delivered,           \* the notification: "none", "sent" or "failed"
    elapsed,             \* seconds slept since the notification
    lastReadAt,          \* value of elapsed at the latest read, -1: no read
    codeWrittenAfter,    \* reads made before the operator wrote the code
                         \* into the document, -1: not written
    typedDigits,         \* digits typed by _enter_2fa_code
    code_len,            \* len(code) of the code _enter_2fa_code was given
    input_ids,           \* input_ids of _enter_2fa_code
    typedFields,         \* ids of the fields typed into, in typing order
    enterReturn,         \* what _enter_2fa_code returned, "none" before
    manualReads,         \* reads of current_url in the manual wait loop
    manualFinal,         \* the read of line 619: "none", "login", "left"
    searchCalls,         \* number of _search_for_term calls
    filtersApplied,      \* times the Posts tab / This week filters were applied
    is_first_search,     \* argument of the last _search_for_term call
    searchReturn,        \* value the last _search_for_term call returned
    all_posts,           \* local all_posts of _scroll_and_collect_posts
    scroll_count,        \* local scroll_count
    no_new_posts_count,  \* local no_new_posts_count
    addedLog,            \* new_posts_added of every iteration so far
    first_extracted,     \* per text: first iteration that extracted it, or 0
    force_attempt,       \* big-scroll attempts made in this iteration
    forced_height,       \* what the latest big-scroll attempt found
    harvested,           \* posts returned by _scroll_and_collect_posts
    harvestDone,         \* _scroll_and_collect_posts has returned
    unique_posts,        \* unique_posts of _login_to_nextdoor
    idx,                 \* index i of the filter_posts loop (1-based)
    current_key_index,   \* self.groq_client.current_key_index
    daily_request_count, \* self.groq_client.daily_request_count
    callKeys,            \* key index of every attempt of the current call
    callAllLimited,      \* every attempt of the current call was rate limited
    callStart,           \* current_key_index when the current call started
    analysis,            \* value returned by analyze_nextdoor_post
    answered,            \* outcome of the last Groq request of the call
    exhausted,           \* _rotate_api_key has returned False in this run
    invoked,             \* indices of the posts filter_posts has analyzed
    callPosts,           \* index of the post each request of the call carried
    relevant_posts,      \* relevant_posts of filter_posts
    requests,            \* Groq requests sent in this run
    reportsSent,         \* send_email_report calls that sent a mail
    zeroAlerts,          \* zero-posts alert mails
    file_content,        \* content of nextdoor_2fa_code.txt in the gist
    polled,              \* what _poll_gist_for_code did and returned
    page,                \* texts of the containers of the page, in order
    post_containers,     \* post_containers of _extract_nextdoor_posts
    strategies,          \* the selectors applied so far and what they found
    ai_state,            \* "unasked", "failed", "rejected" or "accepted"
    detected_selector,   \* the selector the discovery returned, <<>> if none
    raisedAt,            \* indices of the containers whose processing raised
    extracted,           \* the list _extract_nextdoor_posts returned
    extractExit          \* the return it left by: "none" while running

envVars == <<is_github_actions, github_token, nKeys, max_scrolls, feed>>
runVars == <<result, driver, quitCalls, interrupted>>
authVars == <<session, submitted, url, loginCalls>>
waitLocals == <<failedReads, delivered, elapsed, lastReadAt,
                codeWrittenAfter>>
gistVars == <<current_gist_id, docCreated, docExists, attempt, waitReturn,
              waitExit, deleteRequests, notifications, pollReads,
              waitLocals>>
enterLocals == <<code_len, input_ids, typedFields, enterReturn>>
codeVars == <<typedDigits, manualReads, manualFinal, enterLocals>>
searchVars == <<searchCalls, filtersApplied, is_first_search,
                searchReturn>>
scrollVars == <<all_posts, scroll_count, no_new_posts_count, addedLog,
                first_extracted, force_attempt, forced_height, harvested,
                harvestDone>>
groqVars == <<current_key_index, daily_request_count, callKeys,
              callAllLimited, callStart, analysis, answered, exhausted,
              invoked, callPosts, requests>>
filterVars == <<unique_posts, idx, relevant_posts, reportsSent, zeroAlerts>>

pollVars == <<file_content, polled>>
extractVars == <<page, post_containers, strategies, ai_state,
                 detected_selector, raisedAt, extracted, extractExit>>

vars == <<pc, envVars, runVars, authVars, gistVars, codeVars, searchVars,
          scrollVars, groqVars, filterVars, pollVars, extractVars>>

\* ------------------------------------------------------------- locations
UrlFeed == "https://nextdoor.com/news_feed/"
UrlLogin == "https://nextdoor.com/login/"
UrlLoginNext == "https://nextdoor.com/login?next=/news_feed/"
UrlOther == "https://nextdoor.com/choose_address/"
Urls == {UrlFeed, UrlLogin, UrlLoginNext, UrlOther}

\* "login" in url.lower()
HasLogin(u) == u \in {UrlLogin, UrlLoginNext}
\* "/login/" in url
HasLoginPath(u) == u = UrlLogin
\* "news_feed" in url
HasNewsFeed(u) == u \in {UrlFeed, UrlLoginNext}

Terminal == {"Authenticated", "Failed"}
SessionStates == {"Unauthenticated", "AwaitingVerification"} \cup Terminal

\* ----------------------------------------------------------------- texts
Min(a, b) == IF a < b THEN a ELSE b

Pad == [i \in 1..48 |-> "x"]
TextAb == Pad \o <<"a", "b">>
TextCapAb == Pad \o <<"A", "b">>
TextAbc == Pad \o <<"a", "b", "c">>
TextSpace == Pad \o <<"a", " ", "c">>
TextShort == Pad \o <<"a">>
TextB == Pad \o <<"b">>
Texts == {TextAb, TextCapAb, TextAbc, TextSpace, TextShort, TextB}
\* the feed of a whole run
RunFeed == {TextAb, TextCapAb}
\* the feed the scroll loop is explored with
ScrollFeed == {TextAb, TextCapAb, TextAbc, TextSpace}

UpperCase ==
    <<"A", "B", "C", "D", "E", "F", "G", "H", "I", "J", "K", "L", "M", "N",
      "O", "P", "Q", "R", "S", "T", "U", "V", "W", "X", "Y", "Z">>
LowerCase ==
    <<"a", "b", "c", "d", "e", "f", "g", "h", "i", "j", "k", "l", "m", "n",
      "o", "p", "q", "r", "s", "t", "u", "v", "w", "x", "y", "z">>
UpperLetters == {UpperCase[i] : i \in 1..26}
LowerLetters == {LowerCase[i] : i \in 1..26}

\* one character of str.lower()
LowerChar(c) ==
    IF c \in LowerLetters \/ c \notin UpperLetters THEN c
    ELSE LowerCase[CHOOSE i \in 1..26 : UpperCase[i] = c]
\* str.lower()
Lower(s) == [i \in 1..Len(s) |-> LowerChar(s[i])]
\* s[:n]
Prefix(s, n) == SubSeq(s, 1, Min(n, Len(s)))

RECURSIVE StripRight(_)
StripRight(s) ==
    IF s # <<>> /\ s[Len(s)] = " " THEN StripRight(SubSeq(s, 1, Len(s) - 1))
    ELSE s
RECURSIVE StripLeft(_)
StripLeft(s) ==
    IF s # <<>> /\ s[1] = " " THEN StripLeft(Tail(s)) ELSE s
\* str.strip()
Strip(s) == StripLeft(StripRight(s))

\* post['text'][:50].lower().strip()
text_key(t) == Strip(Lower(Prefix(t, KeyLen)))
\* post['text'][:50], the comparison of the scroll loop
RawKey(t) == Prefix(t, KeyLen)


\* ------------------------------------------------------------------ posts
AuthorOf(t) == IF t \in {TextAb, TextAbc} THEN "Jane Doe" ELSE "Bob Smith"
\* post_data of _extract_nextdoor_posts (1371-1377); scroll_found 0 and
\* analysis "none" stand for keys the dict does not have yet
PostData(t) ==
    [text |-> t, author |-> AuthorOf(t), search_term |-> "",
     scroll_found |-> 0, analysis |-> "none"]

SeqsUpTo(S, n) == UNION {[1..k -> S] : k \in 0..n}

\* ------------------------------------------ the verification document
\* Characters are one-character strings; "sup2" stands for the single
\* character U+00B2 (superscript two), "\n" for the line feed.
DecimalDigits == {"0", "1", "2", "3", "4", "5", "6", "7", "8", "9"}
SuperscriptTwo == "sup2"
Newline == "\n"

\* c.isdigit() for one character: true for the decimal digits and for the
\* other characters with the Unicode digit property, such as U+00B2
IsDigitChar(c) == c \in DecimalDigits \cup {SuperscriptTwo}

\* lines 762-771: the lines of the document as _create_2fa_gist writes it
Sentinel ==
    <<"E", "N", "T", "E", "R", "_", "2", "F", "A", "_", "C", "O", "D", "E",
      "_", "H", "E", "R", "E">>
InstructionsHead ==
    <<"I", "n", "s", "t", "r", "u", "c", "t", "i", "o", "n", "s", ":">>
InstructionOne ==
    <<"1", ".", " ", "R", "e", "p", "l", "a", "c", "e", " ", "\"", "E", "N",
      "T", "E", "R", "_", "2", "F", "A", "_", "C", "O", "D", "E", "_", "H",
      "E", "R", "E", "\"", " ", "a", "b", "o", "v", "e", " ", "w", "i", "t",
      "h", " ", "y", "o", "u", "r", " ", "6", "-", "d", "i", "g", "i", "t",
      " ", "N", "e", "x", "t", "d", "o", "o", "r", " ", "v", "e", "r", "i",
      "f", "i", "c", "a", "t", "i", "o", "n", " ", "c", "o", "d", "e">>
InstructionTwo ==
    <<"2", ".", " ", "S", "a", "v", "e", " ", "t", "h", "i", "s", " ", "g",
      "i", "s", "t">>
InstructionThree ==
    <<"3", ".", " ", "T", "h", "e", " ", "s", "c", "a", "n", "n", "e", "r",
      " ", "w", "i", "l", "l", " ", "a", "u", "t", "o", "m", "a", "t", "i",
      "c", "a", "l", "l", "y", " ", "d", "e", "t", "e", "c", "t", " ", "y",
      "o", "u", "r", " ", "c", "o", "d", "e", " ", "a", "n", "d", " ", "c",
      "o", "n", "t", "i", "n", "u", "e">>
CreatedLine ==
    <<"C", "r", "e", "a", "t", "e", "d", ":", " ", "2", "0", "2", "5", "-",
      "0", "1", "-", "0", "6", " ", "0", "9", ":", "1", "5", ":", "4", "2",
      " ", "U", "T", "C">>
DeletedLine ==
    <<"T", "h", "i", "s", " ", "g", "i", "s", "t", " ", "w", "i", "l", "l",
      " ", "b", "e", " ", "a", "u", "t", "o", "m", "a", "t", "i", "c", "a",
      "l", "l", "y", " ", "d", "e", "l", "e", "t", "e", "d", " ", "a", "f",
      "t", "e", "r", " ", "u", "s", "e", ".">>

\* lines an operator may put into the document
SixDigits == <<"1", "2", "3", "4", "5", "6">>
SixDigitsPadded == <<" ", "1", "2", "3", "4", "5", "6", " ">>
FiveDigits == <<"1", "2", "3", "4", "5">>
EmbeddedSix ==
    <<"c", "o", "d", "e", ":", " ", "1", "2", "3", "-", "4", "5", "6">>
InstructionWithCode ==
    <<"I", "n", "s", "t", "r", "u", "c", "t", "i", "o", "n", "s", ":", " ",
      "1", "2", "3", "4", "5", "6">>
SixSuperscripts == [i \in 1..6 |-> SuperscriptTwo]
PollLines == {Sentinel, InstructionsHead, InstructionTwo, SixDigits,
              SixDigitsPadded, FiveDigits, EmbeddedSix, InstructionWithCode,
              SixSuperscripts, <<>>}

\* "\n".join(lines)
RECURSIVE JoinLines(_)
JoinLines(ls) ==
    IF ls = <<>> THEN <<>>
    ELSE IF Len(ls) = 1 THEN ls[1]
    ELSE ls[1] \o <<Newline>> \o JoinLines(Tail(ls))

\* the content of lines 762-771, the first line being the sentinel or what
\* the operator has put in its place
DocumentWith(first) ==
    JoinLines(<<first, <<>>, InstructionsHead, InstructionOne,
                InstructionTwo, InstructionThree, <<>>, CreatedLine,
                DeletedLine>>) \o <<Newline>>
UntouchedDocument == DocumentWith(Sentinel)

\* line 819: file_content.split('\n'): the pieces between the line feeds
SplitLines(s) ==
    LET breaks == {i \in 1..Len(s) : s[i] = Newline}
        Nth(k) == CHOOSE b \in breaks :
                      Cardinality({c \in breaks : c <= b}) = k
        n == Cardinality(breaks) + 1
        From(k) == IF k = 1 THEN 1 ELSE Nth(k - 1) + 1
        To(k) == IF k = n THEN Len(s) ELSE Nth(k) - 1
    IN [k \in 1..n |-> SubSeq(s, From(k), To(k))]

\* line.isdigit(): a non-empty string of digit characters
IsDigitLine(line) ==
    line # <<>> /\ \A i \in 1..Len(line) : IsDigitChar(line[i])

\* line 826: ''.join(c for c in line if c.isdigit())
DigitsOf(line) == SelectSeq(line, IsDigitChar)

\* line.startswith(prefix)
StartsWith(line, prefix) ==
    Len(line) >= Len(prefix) /\ SubSeq(line, 1, Len(prefix)) = prefix

\* what _poll_gist_for_code has done: the status of its GET ("none" when it
\* sent no request) and the code it returned, if any
Polled(status, found, code) ==
    [status |-> status, found |-> found, code |-> code]
NotPolled == Polled("none", FALSE, <<>>)

\* lines 821-830: the body of the for loop, for one line
CodeOfLine(raw) ==
    LET line == Strip(raw) IN
    IF line # <<>> /\ IsDigitLine(line) /\ Len(line) = CodeLen
    THEN Polled("200", TRUE, line)
    ELSE IF /\ line # <<>>
            /\ line # Sentinel
            /\ ~StartsWith(line, InstructionsHead)
            /\ Len(DigitsOf(line)) = CodeLen
         THEN Polled("200", TRUE, DigitsOf(line))
         ELSE Polled("200", FALSE, <<>>)

\* lines 820-832: the first line that gives a code, or None
RECURSIVE FirstCode(_)
FirstCode(lines) ==
    IF lines = <<>> THEN Polled("200", FALSE, <<>>)
    ELSE LET r == CodeOfLine(Head(lines)) IN
         IF r.found THEN r ELSE FirstCode(Tail(lines))

\* lines 812-832: the answer to a 200 response with this content
PollCode(content) == FirstCode(SplitLines(content))

\* --------------------------------------------- the text of one container
\* Texts of containers are sequences of one-character strings; "middot"
\* stands for the single character U+00B7 of the " · " separator.
\* \s of the regular expressions, and the white space of str.strip()
Whitespace == {" ", Newline}

\* s[i-1:i-1+len(sub)] == sub, for the 1-based position i
OccursAt(s, sub, i) ==
    /\ i >= 1
    /\ i + Len(sub) - 1 <= Len(s)
    /\ SubSeq(s, i, i + Len(sub) - 1) = sub

\* the smallest member of a non-empty set of numbers
Least(S) == CHOOSE i \in S : \A j \in S : i <= j

\* s.find(sub): the 0-based index of the first occurrence, -1 when none
find(s, sub) ==
    LET hits == {i \in 1..(Len(s) - Len(sub) + 1) : OccursAt(s, sub, i)}
    IN IF hits = {} THEN -1 ELSE Least(hits) - 1

\* sub in s
Contains(s, sub) == \E i \in 1..(Len(s) - Len(sub) + 1) : OccursAt(s, sub, i)

\* s.split(sep)
RECURSIVE Split(_, _)
Split(s, sep) ==
    IF ~Contains(s, sep) THEN <<s>>
    ELSE <<SubSeq(s, 1, find(s, sep))>>
            \o Split(SubSeq(s, find(s, sep) + Len(sep) + 1, Len(s)), sep)

\* sep.join(parts)
RECURSIVE Join(_, _)
Join(parts, sep) ==
    IF parts = <<>> THEN <<>>
    ELSE IF Len(parts) = 1 THEN parts[1]
    ELSE parts[1] \o sep \o Join(Tail(parts), sep)

\* s.strip(): white space removed at both ends
StripText(s) ==
    LET inked == {i \in 1..Len(s) : s[i] \notin Whitespace}
    IN IF inked = {} THEN <<>>
       ELSE SubSeq(s, Least(inked), CHOOSE i \in inked : \A j \in inked : j <= i)

MiddleDot == <<" ", "middot", " ">>
CommaCA == <<",", " ", "C", "A">>
Ago == <<" ", "a", "g", "o">>
TrafficAlerts ==
    <<"T", "r", "a", "f", "f", "i", "c", " ", "A", "l", "e", "r", "t", "s">>
Unknown == <<"U", "n", "k", "n", "o", "w", "n">>

\* line 1289: the locations, in the order they are tried
locations ==
    <<
      <<"W", "e", "s", "t", " ", "S", "t", "u", "d", "i", "o", " ", "C", "i",
        "t", "y">>,
      <<"S", "t", "u", "d", "i", "o", " ", "C", "i", "t", "y">>,
      <<"S", "h", "e", "r", "m", "a", "n", " ", "O", "a", "k", "s">>,
      <<"P", "a", "n", "o", "r", "a", "m", "a", " ", "C", "i", "t", "y">>,
      <<"M", "a", "n", "d", "e", "v", "i", "l", "l", "e", " ", "C", "a", "n",
        "y", "o", "n">>,
      <<"C", "a", "h", "u", "e", "n", "g", "a", " ", "P", "a", "s", "s">>,
      <<"B", "r", "e", "n", "t", "w", "o", "o", "d", " ", "P", "l", "a", "c",
        "e">>,
      <<"W", "e", "s", "t", " ", "H", "i", "l", "l", "s">>,
      <<"N", "o", "r", "t", "h", " ", "H", "o", "l", "l", "y", "w", "o", "o",
        "d">>,
      <<"V", "a", "l", "l", "e", "y", " ", "V", "i", "l", "l", "a", "g", "e">>,
      <<"L", "o", "s", " ", "A", "n", "g", "e", "l", "e", "s">>,
      <<"W", "e", "s", "t", " ", "L", "A">>,
      <<"E", "n", "c", "i", "n", "o">>,
      <<"T", "a", "r", "z", "a", "n", "a">>,
      <<"B", "u", "r", "b", "a", "n", "k">>,
      <<"B", "r", "e", "n", "t", "w", "o", "o", "d">>,
      <<"P", "a", "l", "i", "s", "a", "d", "e", "s">>,
      <<"T", "h", "e", " ", "H", "i", "g", "h", "l", "a", "n", "d", "s">>,
      <<"G", "l", "e", "n", "d", "a", "l", "e">>,
      <<"P", "a", "s", "a", "d", "e", "n", "a">>,
      <<"B", "e", "v", "e", "r", "l", "y", " ", "H", "i", "l", "l", "s">>,
      <<"W", "e", "H", "o">>,
      <<"K", "e", "n", "t", "e", "r">>,
      <<"C", "e", "n", "t", "r", "a", "l">>
    >>

\* lines 1294-1301: the author is what stands before the first location of
\* the list that occurs after the first character
AuthorBeforeLocation(author_location) ==
    LET hits == {k \in 1..Len(locations) :
                    find(author_location, locations[k]) > 0}
    IN IF hits = {} THEN author_location
       ELSE StripText(SubSeq(author_location, 1,
                             find(author_location, locations[Least(hits)])))

\* line 1304: re.sub(r'\s*(CA|California)\s*$', '', author_name).strip()
DropTrailingState(name) ==
    LET body == StripText(name)
        cut(word) == StripText(SubSeq(body, 1, Len(body) - Len(word)))
    IN IF OccursAt(body, <<"C", "a", "l", "i", "f", "o", "r", "n", "i", "a">>, Len(body) - 9)
       THEN cut(<<"C", "a", "l", "i", "f", "o", "r", "n", "i", "a">>)
       ELSE IF OccursAt(body, <<"C", "A">>, Len(body) - 1) THEN cut(
    <<"C", "A">>)
       ELSE body

\* lines 1280-1304: the author of a container with a " · " in its text
author_name(author_location) ==
    IF Contains(author_location, CommaCA)
    THEN StripText(Split(author_location, CommaCA)[1])
    ELSE DropTrailingState(AuthorBeforeLocation(author_location))

\* lines 1310-1316: what follows the first " ago", or all of it
AfterAgo(remaining) ==
    IF Contains(remaining, Ago)
    THEN StripText(SubSeq(remaining, find(remaining, Ago) + Len(Ago) + 1,
                          Len(remaining)))
    ELSE remaining

\* the locations named in the first reply pattern (line 1326)
ReplyLocations ==
    {
      <<"L", "o", "s", " ", "A", "n", "g", "e", "l", "e", "s">>,
      <<"S", "t", "u", "d", "i", "o", " ", "C", "i", "t", "y">>,
      <<"S", "h", "e", "r", "m", "a", "n", " ", "O", "a", "k", "s">>,
      <<"E", "n", "c", "i", "n", "o">>,
      <<"B", "u", "r", "b", "a", "n", "k">>,
      <<"P", "a", "n", "o", "r", "a", "m", "a", " ", "C", "i", "t", "y">>,
      <<"M", "a", "n", "d", "e", "v", "i", "l", "l", "e">>,
      <<"C", "a", "h", "u", "e", "n", "g", "a">>,
      <<"B", "r", "e", "n", "t", "w", "o", "o", "d">>,
      <<"P", "a", "l", "i", "s", "a", "d", "e", "s">>,
      <<"H", "i", "g", "h", "l", "a", "n", "d", "s">>,
      <<"W", "e", "s", "t">>,
      <<"C", "e", "n", "t", "r", "a", "l">>,
      <<"K", "e", "n", "t", "e", "r">>,
      <<"W", "e", "H", "o">>,
      <<"G", "l", "e", "n", "d", "a", "l", "e">>
    }

\* every character of s[a..b] is in the class, as \d+, [a-z]* and \s* ask
AllIn(s, a, b, class) == \A k \in a..b : s[k] \in class

\* line 1326, a match that starts at position p:
\* (\d+)([A-Z][a-z]*\s*[A-Z][a-z]*.*?(?:Los Angeles|...|Glendale))
NumberNameLocationAt(s, p) ==
    \E u1 \in (p + 1)..Len(s) :
       /\ AllIn(s, p, u1 - 1, DecimalDigits)
       /\ s[u1] \in UpperLetters
       /\ \E u2 \in (u1 + 1)..Len(s) :
             /\ s[u2] \in UpperLetters
             /\ \E m \in u1..(u2 - 1) :
                   /\ AllIn(s, u1 + 1, m, LowerLetters)
                   /\ AllIn(s, m + 1, u2 - 1, Whitespace)
             /\ \E r \in (u2 + 1)..Len(s) :
                   /\ \A k \in (u2 + 1)..(r - 1) : s[k] # Newline
                   /\ \E place \in ReplyLocations : OccursAt(s, place, r)

\* line 1328, a match that starts at position p: (\d{2,})([A-Z][A-Z][a-z])
CountAndNameAt(s, p) ==
    \E u \in (p + 2)..(Len(s) - 2) :
       /\ AllIn(s, p, u - 1, DecimalDigits)
       /\ s[u] \in UpperLetters
       /\ s[u + 1] \in UpperLetters
       /\ s[u + 2] \in LowerLetters

\* line 1330, a match that starts at position p:
\* (\d+\s*hr?\s*ago)([A-Z][a-z]+ [A-Z])
TimeAndNameAt(s, p) ==
    \E e \in p..Len(s) :
       /\ AllIn(s, p, e, DecimalDigits)
       /\ \E h \in (e + 1)..Len(s) :
             /\ AllIn(s, e + 1, h - 1, Whitespace)
             /\ s[h] = "h"
             /\ \E g \in (h + 1)..(Len(s) - 3) :
                   /\ \/ AllIn(s, h + 1, g - 1, Whitespace)
                      \/ /\ s[h + 1] = "r" /\ h + 1 < g
                         /\ AllIn(s, h + 2, g - 1, Whitespace)
                   /\ OccursAt(s, <<"a", "g", "o">>, g)
                   /\ s[g + 3] \in UpperLetters
                   /\ \E w \in (g + 5)..(Len(s) - 1) :
                         /\ AllIn(s, g + 4, w - 1, LowerLetters)
                         /\ s[w] = " "
                         /\ s[w + 1] \in UpperLetters

\* lines 1333-1335: re.search with the patterns in their order: the
\* positions at which the first pattern that matches can match
ReplyStarts(s) ==
    LET first == {p \in 1..Len(s) : NumberNameLocationAt(s, p)}
        second == {p \in 1..Len(s) : CountAndNameAt(s, p)}
        third == {p \in 1..Len(s) : TimeAndNameAt(s, p)}
    IN IF first # {} THEN first ELSE IF second # {} THEN second ELSE third

\* lines 1333-1338 left out: the text keeps the replies
CutRepliesNever(post_text) == post_text

\* lines 1333-1338: the text is cut before the first match of the first
\* pattern that matches
CutReplies(post_text) ==
    IF ReplyStarts(post_text) = {} THEN post_text
    ELSE StripText(SubSeq(post_text, 1, Least(ReplyStarts(post_text)) - 1))

\* the first position from `from` on whose character is not in the class,
\* Len(s) + 1 when there is none
FirstNot(s, from, class) ==
    Least({i \in from..(Len(s) + 1) : i = Len(s) + 1 \/ s[i] \notin class})

\* the last position up to `upto` whose character is not in the class, 0
\* when there is none
LastNot(s, upto, class) ==
    LET outside == {i \in 0..upto : i = 0 \/ s[i] \notin class}
    IN CHOOSE i \in outside : \A j \in outside : j <= i

\* line 1348: re.sub(r'^\d+\s*', '', post_text)
DropLeadingNumber(s) ==
    IF s # <<>> /\ s[1] \in DecimalDigits
    THEN SubSeq(s, FirstNot(s, FirstNot(s, 1, DecimalDigits), Whitespace),
                Len(s))
    ELSE s

\* line 1349: re.sub(r'\d+\s*$', '', post_text)
DropTrailingNumber(s) ==
    LET last == LastNot(s, Len(s), Whitespace)
    IN IF last > 0 /\ s[last] \in DecimalDigits
       THEN SubSeq(s, 1, LastNot(s, last, DecimalDigits))
       ELSE s

\* lines 1346-1350
CleanNumbers(post_text) ==
    IF post_text = <<>> THEN post_text
    ELSE StripText(DropTrailingNumber(DropLeadingNumber(post_text)))

\* line 1366: the words that mark a reply
reply_indicators ==
    {
      <<"@">>,
      <<"R", "e", "p", "l", "y", " ", "t", "o">>,
      <<"T", "h", "a", "n", "k", "s">>,
      <<"T", "h", "a", "n", "k", " ", "y", "o", "u">>,
      <<"Y", "e", "s">>,
      <<"N", "o">>,
      <<"A", "g", "r", "e", "e">>,
      <<"S", "a", "m", "e", " ", "h", "e", "r", "e">>
    }

\* lines 1280-1343: author and text of a container by its " · " format
ParsedAuthor(full_text) ==
    LET parts == Split(full_text, MiddleDot)
    IN IF Len(parts) >= 2 THEN author_name(StripText(parts[1])) ELSE <<>>

ParsedText(full_text) ==
    LET parts == Split(full_text, MiddleDot)
    IN IF Len(parts) >= 2
       THEN LET post_text == AfterAgo(Join(Tail(parts), MiddleDot))
            IN IF post_text # <<>> THEN CutReplies(post_text) ELSE post_text
       ELSE full_text

\* lines 1352-1367: the tests a container has to pass to be a main post
IsMainPost(author, post_text) ==
    /\ author # <<>>
    /\ post_text # <<>>
    /\ Len(post_text) >= 20
    /\ Len(post_text) > 30
    /\ author # Unknown
    /\ Len(post_text) >= 40
    /\ \A word \in reply_indicators :
          ~Contains(SubSeq(post_text, 1, Min(30, Len(post_text))), word)

\* what the loop body (1256-1388) makes of one container: the post it
\* appends to posts_data, or none
Parsed(kept, author, text) == [kept |-> kept, author |-> author, text |-> text]
ContainerPost(full_text) ==
    IF full_text = <<>> \/ Contains(full_text, TrafficAlerts)
    THEN Parsed(FALSE, <<>>, <<>>)
    ELSE Parsed(IsMainPost(ParsedAuthor(full_text),
                           CleanNumbers(ParsedText(full_text))),
                ParsedAuthor(full_text),
                CleanNumbers(ParsedText(full_text)))

\* ------------------------------------------------ the pages of the model
\* the texts of the containers a page of search results can hold
JaneStudioCity ==
    <<"J", "a", "n", "e", " ", "D", "o", "e", "S", "t", "u", "d", "i", "o",
      " ", "C", "i", "t", "y">>
BobEncino ==
    <<"B", "o", "b", " ", "S", "m", "i", "t", "h", "E", "n", "c", "i", "n",
      "o", ",", " ", "C", "A">>
ThreeHours == <<"3", " ", "h", "r", " ", "a", "g", "o">>
JustNow == <<"J", "u", "s", "t", " ", "n", "o", "w">>
PoolBody ==
    <<"N", "e", "e", "d", " ", "a", " ", "r", "e", "l", "i", "a", "b", "l",
      "e", " ", "p", "o", "o", "l", " ", "g", "u", "y", ",", " ", "a", "n",
      "y", "o", "n", "e", " ", "h", "a", "v", "e", " ", "r", "e", "c", "s",
      "?">>
PoolBodyCaps ==
    <<"N", "E", "E", "D", " ", "A", " ", "R", "E", "L", "I", "A", "B", "L",
      "E", " ", "P", "O", "O", "L", " ", "G", "U", "Y", ",", " ", "a", "n",
      "y", "o", "n", "e", " ", "h", "a", "v", "e", " ", "r", "e", "c", "s",
      "?">>
ShortBody ==
    <<"A", "n", "y", " ", "p", "o", "o", "l", " ", "r", "e", "c", "s", " ",
      "f", "o", "r", " ", "E", "n", "c", "i", "n", "o", "?">>
ThanksBody ==
    <<"T", "h", "a", "n", "k", "s", " ", "f", "o", "r", " ", "t", "h", "e",
      " ", "t", "i", "p", " ", "a", "b", "o", "u", "t", " ", "t", "h", "e",
      " ", "p", "o", "o", "l", " ", "c", "l", "e", "a", "n", "i", "n", "g",
      " ", "s", "e", "r", "v", "i", "c", "e", "!">>
ReplyFragment ==
    <<"2", "B", "o", "b", " ", "S", "m", "i", "t", "h", "E", "n", "c", "i",
      "n", "o">>
AlertText ==
    <<"T", "r", "a", "f", "f", "i", "c", " ", "A", "l", "e", "r", "t", "s",
      ":", " ", "c", "r", "a", "s", "h", " ", "o", "n", " ", "t", "h", "e",
      " ", "1", "0", "1", " ", "n", "e", "a", "r", " ", "S", "t", "u", "d",
      "i", "o", " ", "C", "i", "t", "y", ",", " ", "l", "a", "n", "e", "s",
      " ", "c", "l", "o", "s", "e", "d">>

PoolWithReply ==
    JaneStudioCity \o MiddleDot \o ThreeHours \o PoolBody \o ReplyFragment
PoolAlone == JaneStudioCity \o MiddleDot \o ThreeHours \o PoolBody
PoolAgain == BobEncino \o MiddleDot \o JustNow \o PoolBodyCaps
ShortPost == JaneStudioCity \o MiddleDot \o ThreeHours \o ShortBody
ThanksPost == BobEncino \o MiddleDot \o ThreeHours \o ThanksBody

PageTexts ==
    {PoolWithReply, PoolAlone, PoolAgain, ShortPost, ThanksPost, PoolBody,
     AlertText}

\* the texts of the posts the containers of the model give, and the keys
\* of all texts of the model, computed once
ContainerPostOf == [t \in PageTexts |-> ContainerPost(t)]
ParsedTexts == {ContainerPostOf[t].text : t \in PageTexts}
TextKeyOf == [t \in Texts \cup ParsedTexts |-> text_key(t)]
RawKeyOf == [t \in Texts \cup ParsedTexts |-> RawKey(t)]

\* what the model can answer to the selector prompt (lines 1157-1164)
ClassAnswer == <<" ", ".", "p", "o", "s", "t", "-", "c", "a", "r", "d">>
AttributeAnswer ==
    <<"[", "d", "a", "t", "a", "-", "i", "d", "=", "\"", "p", "o", "s", "t",
      "\"", "]">>
BareAttributeAnswer == <<"[", "d", "a", "t", "a", "-", "i", "d", "]">>
ProseAnswer ==
    <<"T", "h", "e", " ", "s", "e", "l", "e", "c", "t", "o", "r", " ", "i",
      "s", " ", ".", "p", "o", "s", "t", "-", "c", "a", "r", "d">>
AiAnswers ==
    {ClassAnswer, AttributeAnswer, BareAttributeAnswer, ProseAnswer, <<>>}

\* ------------------------------------------------------------------- Init
\* _extract_nextdoor_posts has not been entered, on an empty page
NotExtracting ==
    /\ page = <<>>
    /\ post_containers = <<>>
    /\ strategies = <<>>
    /\ ai_state = "unasked"
    /\ detected_selector = <<>>
    /\ raisedAt = {}
    /\ extracted = <<>>
    /\ extractExit = "none"

\* no verification document yet
NoGist ==
    /\ current_gist_id = "none"
    /\ docCreated = FALSE
    /\ docExists = FALSE
    /\ file_content = <<>>
    /\ polled = NotPolled

\* the other fields and locals that no part of the run has touched yet
Untouched ==
    /\ result = "none"
    /\ quitCalls = 0
    /\ interrupted = FALSE
    /\ is_github_actions = FALSE
    /\ github_token \in BOOLEAN
    /\ nKeys \in 1..MaxKeys
    /\ url = "none"
    /\ attempt = 0
    /\ waitReturn = "none"
    /\ waitExit = "none"
    /\ deleteRequests = 0
    /\ notifications = 0
    /\ pollReads = 0
    /\ failedReads = 0
    /\ delivered = "none"
    /\ elapsed = 0
    /\ lastReadAt = -1
    /\ codeWrittenAfter = -1
    /\ typedDigits = 0
    /\ code_len = 0
    /\ input_ids = <<>>
    /\ typedFields = <<>>
    /\ enterReturn = "none"
    /\ manualReads = 0
    /\ manualFinal = "none"
    /\ all_posts = <<>>
    /\ scroll_count = 0
    /\ no_new_posts_count = 0
    /\ addedLog = <<>>
    /\ first_extracted = [t \in Texts |-> 0]
    /\ force_attempt = 0
    /\ forced_height = "none"
    /\ current_key_index = 0
    /\ daily_request_count = 0
    /\ callKeys = <<>>
    /\ callAllLimited = TRUE
    /\ callStart = 0
    /\ analysis = "none"
    /\ answered = "none"
    /\ exhausted = FALSE
    /\ invoked = <<>>
    /\ callPosts = <<>>
    /\ relevant_posts = <<>>
    /\ requests = 0
    /\ reportsSent = 0
    /\ zeroAlerts = 0

Fresh == NoGist /\ Untouched /\ NotExtracting

\* NextdoorScanner.__init__ (381-389) and BulqitGroqClient.__init__ (88-92)
Init ==
    /\ Fresh
    /\ pc = "start"
    /\ driver = "none"
    /\ feed = RunFeed
    /\ max_scrolls = 0
    /\ session = "Unauthenticated"
    /\ submitted = FALSE
    /\ loginCalls = 0
    /\ searchCalls = 0
    /\ filtersApplied = 0
    /\ is_first_search = FALSE
    /\ searchReturn = "none"
    /\ harvested = <<>>
    /\ harvestDone = FALSE
    /\ unique_posts = <<>>
    /\ idx = 0

\* --------------------------------------------------------------- run_scan
\* _setup_headless_driver: webdriver.Chrome may fail, or a later call of the
\* set-up may fail after self.driver was assigned.
SetupDriver ==
    /\ pc = "start"
    /\ \E outcome \in {"ok", "no_driver", "failed_after_create"} :
          /\ driver' = IF outcome = "no_driver" THEN "none" ELSE "open"
          /\ IF outcome = "ok"
             THEN /\ pc' = "nav_feed"
                  /\ result' = result
                  /\ loginCalls' = loginCalls + 1
             ELSE /\ pc' = "done"
                  /\ result' = "false"
                  /\ loginCalls' = loginCalls
    /\ UNCHANGED <<pollVars, extractVars,
                   quitCalls, interrupted, envVars, session,
                   submitted, url, gistVars, codeVars, searchVars,
                   scrollVars, groqVars, filterVars>>

\* a failed login that goes on to the search instead of returning
FailLoginContinues ==
    /\ session' = "Failed"
    /\ result' = result
    /\ pc' = "after_login"

\* the login part has ended in Failed: return False to run_scan
FailLogin ==
    /\ session' = "Failed"
    /\ result' = "false"
    /\ pc' = "finally"

\* the check without its "login" half
AlreadyLoggedInFeedOnly(u) == HasNewsFeed(u)

\* line 473: "news_feed" in current_url and "login" not in current_url
AlreadyLoggedIn(u) == HasNewsFeed(u) /\ ~HasLogin(u)

\* lines 464-484: open the news feed and look at the location
NavigateToFeed ==
    /\ pc = "nav_feed"
    /\ \E u \in Urls :
          /\ url' = u
          /\ IF AlreadyLoggedIn(u)
             THEN /\ session' = "Authenticated"
                  /\ pc' = "after_login"
             ELSE /\ session' = session
                  /\ pc' = "credentials"
    /\ UNCHANGED <<pollVars, extractVars,
                   envVars, runVars, submitted, loginCalls,
                   gistVars, codeVars, searchVars, scrollVars, groqVars,
                   filterVars>>

\* lines 486-566: find the e-mail field, the password field and the login
\* button, type the credentials and click
SubmitCredentials ==
    /\ pc = "credentials"
    /\ \E found \in {"no_email", "no_password", "no_button", "clicked"} :
          IF found = "clicked"
          THEN /\ submitted' = TRUE
               /\ pc' = "check_2fa"
               /\ UNCHANGED <<session, result>>
          ELSE /\ FailLogin
               /\ submitted' = submitted
    /\ UNCHANGED <<pollVars, extractVars,
                   envVars, driver, quitCalls, interrupted, url,
                   loginCalls, gistVars, codeVars, searchVars, scrollVars,
                   groqVars, filterVars>>

\* the gist channel chosen whenever a token is configured
UseGistChannelTokenOnly(gha, token) == token

\* line 589: "if is_github_actions and self.github_token"
UseGistChannel(gha, token) == gha /\ token

\* lines 568-608 with _check_for_2fa (732-748): an error while reading the
\* location ("error" for the value read) is caught inside _check_for_2fa
\* (746-748), which returns False: it reads as "no 2FA", and the handler of
\* lines 571-573 is never entered
CheckFor2fa ==
    /\ pc = "check_2fa"
    /\ \E u \in Urls \cup {"error"}, gha \in BOOLEAN :
          /\ url' = u
          /\ IF u # "error" /\ HasLogin(u)
             THEN /\ session' = "AwaitingVerification"
                  /\ is_github_actions' = gha
                  /\ pc' = IF UseGistChannel(gha, github_token)
                           THEN "wait_create" ELSE "manual_poll"
             ELSE /\ session' = "Authenticated"
                  /\ is_github_actions' = is_github_actions
                  /\ pc' = "after_login"
    /\ UNCHANGED <<pollVars, extractVars,
                   github_token, nKeys, max_scrolls, feed, runVars,
                   submitted, loginCalls, gistVars, codeVars, searchVars,
                   scrollVars, groqVars, filterVars>>

\* ---------------------------------------------------- _wait_for_2fa_code
\* lines 873-876 with _create_2fa_gist (750-797): POST /gists.  Anything but
\* a 201 answer, and any error of the request, makes the wait return None.
Create2faGist ==
    /\ pc = "wait_create"
    /\ \E answer \in {"201", "refused", "error"} :
          IF answer = "201"
          THEN /\ current_gist_id' = "gist"
               /\ docCreated' = TRUE
               /\ docExists' = TRUE
               /\ pc' = "wait_notify"
               /\ UNCHANGED <<waitExit, session, result>>
          ELSE /\ waitExit' = "no_gist"
               /\ FailLogin
               /\ UNCHANGED <<current_gist_id, docCreated, docExists>>
    /\ UNCHANGED <<pollVars, extractVars,
                   envVars, driver, quitCalls, interrupted,
                   submitted, url, loginCalls, attempt, waitReturn,
                   deleteRequests, notifications, pollReads, waitLocals,
                   codeVars, searchVars, scrollVars, groqVars, filterVars>>

\* the wait returning when the mail could not be sent
AfterNotificationStops(sent) == IF sent THEN "wait_poll" ELSE "wait_delete"

\* lines 879-883: the value send_2fa_notification_with_gist returns is not
\* looked at
AfterNotification(sent) == "wait_poll"

\* lines 879-883 with send_2fa_notification_with_gist (339-378) and
\* _send_with_custom_subject (116-158): the mail is sent, or it is not
\* (credentials not set, any error of the SMTP session) and False comes back
SendNotification ==
    /\ pc = "wait_notify"
    /\ notifications' = notifications + 1
    /\ attempt' = 0
    /\ elapsed' = 0
    /\ \E sent \in BOOLEAN :
          /\ delivered' = IF sent THEN "sent" ELSE "failed"
          /\ pc' = AfterNotification(sent)
    /\ UNCHANGED <<pollVars, extractVars,
                   envVars, runVars, authVars, current_gist_id,
                   docCreated, docExists, waitReturn, waitExit,
                   deleteRequests, pollReads, failedReads, lastReadAt,
                   codeWrittenAfter, codeVars, searchVars,
                   scrollVars, groqVars, filterVars>>

\* the operator follows the instructions of the mail and of the document
\* (lines 764-767) and puts the code into the document, at any moment of
\* the wait
WriteCode ==
    /\ pc \in {"wait_poll", "wait_sleep"}
    /\ docExists
    /\ codeWrittenAfter = -1
    /\ codeWrittenAfter' = pollReads
    /\ UNCHANGED <<pollVars, extractVars, pc,
                   envVars, runVars, authVars, current_gist_id,
                   docCreated, docExists, attempt, waitReturn, waitExit,
                   deleteRequests, notifications, pollReads, failedReads,
                   delivered, elapsed, lastReadAt, codeVars, searchVars,
                   scrollVars, groqVars, filterVars>>

\* the loop test letting one more turn through
MorePollsOffByOne(made) == made <= max_attempts

\* line 885: "while attempt < max_attempts"
MorePolls(made) == made < max_attempts

\* what one GET of the document can come to: the document is read, and
\* holds the code or not, or the answer is not a 200, or the request raises
Reads(written) ==
    (IF written THEN {"code"} ELSE {"no_code"}) \cup {"status", "error"}

\* a read that failed
ReadFailed(read) == read \in {"status", "error"}

\* a read that failed ending the wait
AfterReadFailureStops(read) ==
    IF read = "code" \/ ReadFailed(read) THEN "wait_delete" ELSE "wait_sleep"

\* lines 886-895 with 834-841: _poll_gist_for_code returns None for a
\* document without a code, for a status other than 200 and for an error
\* alike, and the loop sleeps and goes on
AfterRead(read) == IF read = "code" THEN "wait_delete" ELSE "wait_sleep"

\* lines 885-899 with _poll_gist_for_code (799-841): one turn of the while
\* loop up to the sleep, or the timeout when the loop test fails
PollGist ==
    /\ pc = "wait_poll"
    /\ IF MorePolls(attempt)
       THEN /\ pollReads' = pollReads + 1
            /\ lastReadAt' = elapsed
            /\ \E read \in Reads(codeWrittenAfter >= 0) :
                  /\ failedReads' = IF ReadFailed(read) THEN failedReads + 1
                                    ELSE failedReads
                  /\ pc' = AfterRead(read)
                  /\ IF read = "code"
                     THEN /\ waitReturn' = "code"
                          /\ attempt' = attempt
                     ELSE /\ attempt' = attempt + 1
                          /\ waitReturn' = waitReturn
       ELSE /\ waitReturn' = "timeout"
            /\ pc' = "wait_delete"
            /\ UNCHANGED <<pollReads, attempt, failedReads, lastReadAt>>
    /\ UNCHANGED <<pollVars, extractVars,
                   envVars, runVars, authVars, current_gist_id,
                   docCreated, docExists, waitExit, deleteRequests,
                   notifications, delivered, elapsed, codeWrittenAfter,
                   codeVars, searchVars, scrollVars, groqVars,
                   filterVars>>

\* the sleep of line 895 left out after the last read
SleptAfterSkipsLast(seconds, made) ==
    IF made = max_attempts THEN seconds ELSE seconds + SleepSeconds

\* line 895: time.sleep(30), after every read that returned None
SleptAfter(seconds, made) == seconds + SleepSeconds

WaitSleep ==
    /\ pc = "wait_sleep"
    /\ elapsed' = SleptAfter(elapsed, attempt)
    /\ pc' = "wait_poll"
    /\ UNCHANGED <<pollVars, extractVars,
                   envVars, runVars, authVars, current_gist_id,
                   docCreated, docExists, attempt, waitReturn, waitExit,
                   deleteRequests, notifications, pollReads, failedReads,
                   delivered, lastReadAt, codeWrittenAfter, codeVars,
                   searchVars, scrollVars, groqVars, filterVars>>

\* lines 901-903: an Exception raised inside the try block of
\* _wait_for_2fa_code reaches the handler, which deletes and returns None
WaitRaise ==
    /\ pc \in {"wait_create", "wait_notify", "wait_poll", "wait_sleep"}
    /\ waitReturn' = "exception"
    /\ pc' = "wait_delete"
    /\ UNCHANGED <<pollVars, extractVars,
                   envVars, runVars, authVars, current_gist_id,
                   docCreated, docExists, attempt, waitExit, deleteRequests,
                   notifications, pollReads, waitLocals, codeVars,
                   searchVars, scrollVars, groqVars, filterVars>>

\* the answers of the gist store to a DELETE, as the new existence of the
\* document: 204 removes it, any other status leaves it, and an error of the
\* request can have happened before or after the store acted
DeleteOutcome(answer, exists) ==
    IF answer = "204" THEN {FALSE}
    ELSE IF answer = "refused" THEN {exists}
    ELSE {exists, FALSE}

\* _delete_2fa_gist (843-865) as called at lines 889, 898 and 903, and the
\* return of _wait_for_2fa_code to lines 592-604
Delete2faGist ==
    /\ pc = "wait_delete"
    /\ IF github_token /\ current_gist_id # "none"
       THEN \E answer \in {"204", "refused", "error"} :
               /\ deleteRequests' = deleteRequests + 1
               /\ docExists' \in DeleteOutcome(answer, docExists)
               /\ current_gist_id' = IF answer = "error" THEN current_gist_id
                                     ELSE "none"
       ELSE UNCHANGED <<deleteRequests, docExists, current_gist_id>>
    /\ waitExit' = waitReturn
    /\ IF waitReturn = "code"
       THEN /\ pc' = "enter_code"
            /\ UNCHANGED <<session, result>>
       ELSE FailLogin
    /\ UNCHANGED <<pollVars, extractVars,
                   envVars, driver, quitCalls, interrupted,
                   submitted, url, loginCalls, docCreated, attempt,
                   waitReturn, notifications, pollReads, waitLocals,
                   codeVars, searchVars, scrollVars, groqVars, filterVars>>

\* -------------------------------------------------------- _enter_2fa_code
\* line 919: the ids used when the look-up of the fields raised
FallbackIds == <<"_rd_", "_re_", "_rf_", "_rg_", "_rh_", "_ri_">>

\* the ids of the displayed fields a page can have, as input_ids.sort()
\* orders them
PageFieldIds ==
    <<"_r1_", "_r2_", "_r3_", "_r4_", "_r5_", "_r6_", "_r7_">>

\* lines 912-919: the sorted ids of the displayed fields that were found,
\* however many; the fallback list only when the look-up raised
InputIds(raised, found) ==
    IF raised THEN FallbackIds ELSE SubSeq(PageFieldIds, 1, found)

\* lines 921-937: the digits typed.  None when the code has not six
\* characters; else digit i goes to input_ids[i] until a field cannot be
\* filled (failAt) or input_ids has no i-th id (the IndexError is raised
\* again by the print of line 936 and caught at 956)
TypedCount(len, ids, failAt) ==
    IF len # CodeLen THEN 0 ELSE Min(Min(Len(ids), failAt - 1), len)

\* lines 921-958: True when all six digits were typed, whatever the
\* location read afterwards (lines 949 and 954)
EnterResult(typed, u) == typed = CodeLen

\* _enter_2fa_code (906-958) called with a code of len characters
EnterBody(len, raised, found, failAt, u) ==
    LET ids == InputIds(raised, found)
        typed == TypedCount(len, ids, failAt)
    IN /\ code_len' = len
       /\ input_ids' = ids
       /\ typedDigits' = typed
       /\ typedFields' = SubSeq(ids, 1, typed)
       /\ url' = IF typed = CodeLen THEN u ELSE url
       /\ enterReturn' = IF EnterResult(typed, u) THEN "true" ELSE "false"

\* _enter_2fa_code as called at line 596 with the code the wait returned,
\* which has six digits, and the caller's lines 594-601
Enter2faCode ==
    /\ pc = "enter_code"
    /\ \E raised \in BOOLEAN, found \in 0..Len(PageFieldIds),
          failAt \in 1..(CodeLen + 1), u \in Urls \cup {"error"} :
          /\ EnterBody(CodeLen, raised, found, failAt, u)
          /\ IF EnterResult(TypedCount(CodeLen, InputIds(raised, found),
                                       failAt), u)
             THEN /\ session' = "Authenticated"
                  /\ pc' = "after_login"
                  /\ result' = result
             ELSE FailLogin
    /\ UNCHANGED <<pollVars, extractVars,
                   envVars, driver, quitCalls, interrupted,
                   submitted, loginCalls, gistVars, manualReads, manualFinal,
                   searchVars, scrollVars, groqVars, filterVars>>

\* ------------------------------------------------------- manual 2FA wait
\* lines 610-615 without the break
PollingNeverBreaks(u, reads) == reads = ManualWaitSeconds

\* lines 610-615: the loop ends with the break or with range(60)
PollingStops(u, reads) == ~HasLogin(u) \/ reads = ManualWaitSeconds

\* lines 610-617: one turn of "for i in range(60)": sleep one second, read
\* the location, leave the loop when it has no "login"
ManualPoll ==
    /\ pc = "manual_poll"
    /\ manualReads < ManualWaitSeconds
    /\ \E u \in Urls :
          /\ url' = u
          /\ manualReads' = manualReads + 1
          /\ pc' = IF PollingStops(u, manualReads + 1)
                   THEN "manual_final" ELSE "manual_poll"
    /\ UNCHANGED <<pollVars, extractVars,
                   envVars, runVars, session, submitted,
                   loginCalls, gistVars, typedDigits, manualFinal,
                   enterLocals,
                   searchVars, scrollVars, groqVars, filterVars>>

\* lines 618-623: the location is read once more and decides
ManualFinalCheck ==
    /\ pc = "manual_final"
    /\ \E u \in Urls :
          /\ url' = u
          /\ IF HasLogin(u)
             THEN /\ manualFinal' = "login"
                  /\ FailLogin
             ELSE /\ manualFinal' = "left"
                  /\ session' = "Authenticated"
                  /\ pc' = "after_login"
                  /\ result' = result
    /\ UNCHANGED <<pollVars, extractVars,
                   envVars, driver, quitCalls, interrupted,
                   submitted, loginCalls, gistVars, typedDigits, manualReads,
                   enterLocals,
                   searchVars, scrollVars, groqVars, filterVars>>

\* lines 625-650: the login part is over; its locals go out of scope
AfterLogin ==
    /\ pc = "after_login"
    /\ url' = "none"
    /\ attempt' = 0
    /\ waitReturn' = "none"
    /\ pollReads' = 0
    /\ failedReads' = 0
    /\ delivered' = "none"
    /\ elapsed' = 0
    /\ lastReadAt' = -1
    /\ codeWrittenAfter' = -1
    /\ typedDigits' = 0
    /\ code_len' = 0
    /\ input_ids' = <<>>
    /\ typedFields' = <<>>
    /\ enterReturn' = "none"
    /\ manualReads' = 0
    /\ manualFinal' = "none"
    /\ pc' = "search"
    /\ UNCHANGED <<pollVars, extractVars,
                   envVars, runVars, session, submitted,
                   loginCalls, current_gist_id, docCreated, docExists,
                   waitExit, deleteRequests, notifications, searchVars,
                   scrollVars, groqVars, filterVars>>

\* ------------------------------------------------------ _search_for_term
\* how one call can go: the search box is not found (line 991), a driver
\* call raises (1046-1048), or the search is submitted
SearchOutcomes == {"no_box", "error", "ok"}

\* the test of line 1029 left out: the filters are applied on every call
AppliesFiltersAlways(first, outcome) == outcome = "ok"

\* line 1029: "if is_first_search", reached only when the search went through
AppliesFilters(first, outcome) == outcome = "ok" /\ first

\* _search_for_term (960-1048) called with is_first_search = first
SearchBody(first, outcome) ==
    /\ searchCalls' = searchCalls + 1
    /\ is_first_search' = first
    /\ searchReturn' = IF outcome = "ok" THEN "true" ELSE "false"
    /\ filtersApplied' = IF AppliesFilters(first, outcome)
                         THEN filtersApplied + 1 ELSE filtersApplied

\* lines 652-660: the one search of the run, with is_first_search = True.
\* The scroll budget of the call at line 660 is drawn from 0..MaxBudget.
SearchForTerm ==
    /\ pc = "search"
    /\ \E outcome \in SearchOutcomes, budget \in 0..MaxBudget :
          /\ SearchBody(TRUE, outcome)
          /\ IF outcome = "ok"
             THEN /\ max_scrolls' = budget
                  /\ pc' = "scroll_head"
             ELSE /\ pc' = "dedup"
                  /\ UNCHANGED max_scrolls
    /\ UNCHANGED <<pollVars, extractVars,
                   is_github_actions, github_token, nKeys, feed,
                   runVars, authVars, gistVars, codeVars, scrollVars,
                   groqVars, filterVars>>

\* _search_for_term called by any caller, with any argument, without the
\* rest of the run
SearchCall ==
    /\ pc = "search"
    /\ searchCalls < MaxSearches
    /\ \E first \in BOOLEAN, outcome \in SearchOutcomes :
          SearchBody(first, outcome)
    /\ UNCHANGED <<pollVars, extractVars,
                   pc, envVars, runVars, authVars, gistVars,
                   codeVars, scrollVars, groqVars, filterVars>>

\* ------------------------------------------------- _extract_nextdoor_posts
RECURSIVE DedupFrom(_, _, _)
DedupFrom(ps, out, seen) ==
    IF ps = <<>> THEN out
    ELSE LET p == Head(ps)
             k == TextKeyOf[p.text]
         IN IF k \in seen
            THEN DedupFrom(Tail(ps), out, seen)
            ELSE DedupFrom(Tail(ps), Append(out, p), seen \cup {k})

\* lines 1390-1400: "Remove duplicates" inside one extraction
RemoveDuplicates(posts_data) == DedupFrom(posts_data, <<>>, {})

\* _extract_nextdoor_posts as seen by the scroll loop: the posts built from
\* the containers on the page, deduplicated; [] when the extraction fails
ExtractPosts(visible, failed) ==
    IF failed THEN <<>>
    ELSE RemoveDuplicates([i \in 1..Len(visible) |-> PostData(visible[i])])

\* ---------------------------------------------- _scroll_and_collect_posts
\* line 1487: any(existing['text'][:50] == post['text'][:50] ...)
AlreadyCollected(acc, post) ==
    \E j \in 1..Len(acc) : RawKeyOf[acc[j].text] = RawKeyOf[post.text]

\* lines 1486-1490: add the posts that are not collected yet
RECURSIVE MergePosts(_, _, _)
MergePosts(acc, posts, n) ==
    IF posts = <<>> THEN acc
    ELSE LET post == Head(posts) IN
         IF AlreadyCollected(acc, post)
         THEN MergePosts(acc, Tail(posts), n)
         ELSE MergePosts(Append(acc, [post EXCEPT !.scroll_found = n]),
                         Tail(posts), n)

\* lines 1494-1498 without the increment
NextNoNewStuck(count, added) == IF added = 0 THEN count ELSE 0

\* lines 1494-1498
NextNoNew(count, added) == IF added = 0 THEN count + 1 ELSE 0

\* line 1501 stopping one iteration early
StagnationStopEarly(count) == count >= StagnationLimit - 1

\* line 1501: if no_new_posts_count >= 3: break
StagnationStop(count) == count >= StagnationLimit

\* line 1474 written as scroll_count <= max_scrolls
BudgetLeftOffByOne(count, budget) == count <= budget

\* line 1474: while scroll_count < max_scrolls
BudgetLeft(count, budget) == count < budget

\* the record of which texts _extract_nextdoor_posts has returned so far:
\* a text returned for the first time gets the number n of the iteration
Extracted(first, posts, n) ==
    [t \in Texts |->
        IF first[t] = 0 /\ \E i \in 1..Len(posts) : posts[i].text = t
        THEN n ELSE first[t]]

\* lines 1475 and 1484-1503: the turn is counted, the posts the extraction
\* returned are merged into all_posts and the stagnation is checked
TakePosts(posts) ==
    LET merged == MergePosts(all_posts, posts, scroll_count + 1)
        added == Len(merged) - Len(all_posts)
        noNew == NextNoNew(no_new_posts_count, added)
    IN /\ scroll_count' = scroll_count + 1
       /\ all_posts' = merged
       /\ addedLog' = Append(addedLog, added)
       /\ first_extracted' = Extracted(first_extracted, posts,
                                       scroll_count + 1)
       /\ no_new_posts_count' = noNew
       /\ pc' = IF StagnationStop(noNew) THEN "scroll_ret"
                ELSE "scroll_move"

\* lines 1474-1503: one turn of the while loop up to the stagnation check
ScrollIterate ==
    /\ pc = "scroll_head"
    /\ IF BudgetLeft(scroll_count, max_scrolls)
       THEN \E visible \in SeqsUpTo(feed, MaxVisible), failed \in BOOLEAN :
               TakePosts(ExtractPosts(visible, failed))
       ELSE /\ pc' = "scroll_ret"
            /\ UNCHANGED <<scroll_count, all_posts, addedLog,
                           first_extracted, no_new_posts_count>>
    /\ UNCHANGED <<pollVars, extractVars,
                   envVars, runVars, authVars, gistVars, codeVars,
                   searchVars, force_attempt, forced_height, harvested,
                   harvestDone,
                   groqVars, filterVars>>

\* lines 1505-1545 and 1588-1589: scroll and read the page height again; a
\* height that changed ends the iteration, one that did not starts the big
\* scrolls
ScrollMove ==
    /\ pc = "scroll_move"
    /\ \E height \in {"changed", "same"} :
          pc' = IF height = "same" THEN "force_scroll" ELSE "scroll_head"
    /\ UNCHANGED <<pollVars, extractVars,
                   envVars, runVars, authVars, gistVars, codeVars,
                   searchVars, scrollVars, groqVars, filterVars>>

\* the while loop re-measuring the page after the big scrolls instead of
\* starting its next turn
AfterForcedScrollAgain == "scroll_move"

\* lines 1579-1589 and 1474: after the big scrolls the final height is read,
\* popups are closed and the while loop takes its next turn
AfterForcedScroll == "scroll_head"

\* line 1549 written as range(4)
MoreForcedScrollsOffByOne(made) == made <= ForcedScrolls

\* line 1549: for attempt in range(3)
MoreForcedScrolls(made) == made < ForcedScrolls

\* lines 1549-1589: one step of the big scrolls: the break after an
\* attempt that made the page grow (1560, 1572), one more attempt, or the
\* end of range(3)
ForceScroll ==
    /\ pc = "force_scroll"
    /\ IF forced_height \in {"grew", "grew_on_retry"}
          \/ ~MoreForcedScrolls(force_attempt)
       THEN /\ force_attempt' = 0
            /\ forced_height' = "none"
            /\ pc' = AfterForcedScroll
       ELSE \E height \in {"grew", "grew_on_retry", "same"} :
               /\ forced_height' = height
               /\ force_attempt' = force_attempt + 1
               /\ pc' = pc
    /\ UNCHANGED <<pollVars, extractVars,
                   envVars, runVars, authVars, gistVars, codeVars,
                   searchVars, all_posts, scroll_count, no_new_posts_count,
                   addedLog, first_extracted, harvested, harvestDone,
                   groqVars, filterVars>>

\* lines 629-641: the term of the day (Monday's)
today_term == "pool"

\* lines 663-664: tag the posts with the search term
TagPosts(posts, term) ==
    [i \in 1..Len(posts) |-> [posts[i] EXCEPT !.search_term = term]]

\* lines 1591-1592 and 660-694: the loop returns all_posts and its locals go
\* out of scope; the caller tags the posts, or sends the zero-posts alert
\* when there are none
ScrollReturn ==
    /\ pc = "scroll_ret"
    /\ harvestDone' = TRUE
    /\ harvested' = TagPosts(all_posts, today_term)
    /\ zeroAlerts' = IF all_posts = <<>> THEN zeroAlerts + 1 ELSE zeroAlerts
    /\ all_posts' = <<>>
    /\ scroll_count' = 0
    /\ no_new_posts_count' = 0
    /\ addedLog' = <<>>
    /\ first_extracted' = [t \in Texts |-> 0]
    /\ pc' = "dedup"
    /\ UNCHANGED <<pollVars, extractVars,
                   envVars, runVars, authVars, gistVars, codeVars,
                   searchVars, force_attempt, forced_height, groqVars,
                   unique_posts, idx,
                   relevant_posts, reportsSent>>

\* lines 698-706 without the test of line 704
UniquePostsKeepAll(posts) == posts

\* lines 698-706: "Remove duplicates across all searches"
UniquePosts(posts) == DedupFrom(posts, <<>>, {})

\* lines 698-724: deduplicate, then filter when there is anything left
DedupAll ==
    /\ pc = "dedup"
    /\ unique_posts' = UniquePosts(harvested)
    /\ idx' = 1
    /\ relevant_posts' = <<>>
    /\ pc' = IF UniquePosts(harvested) # <<>> THEN "filter" ELSE "login_ret"
    /\ UNCHANGED <<pollVars, extractVars,
                   envVars, runVars, authVars, gistVars, codeVars,
                   searchVars, scrollVars, groqVars, reportsSent,
                   zeroAlerts>>

\* ------------------------------------------------------ BulqitGroqClient
\* the test of line 96 written as index < len(api_keys)
CanRotateOffByOne(index, n) == index < n

\* line 96: the test of _rotate_api_key
CanRotate(index, n) == index < n - 1
\* line 97 skipping a key
RotatedIndexSkip(index) == index + 2

\* line 97: self.current_key_index += 1
RotatedIndex(index) == index + 1

\* What one request to Groq can come to (lines 201-225):
\*   "relevant", "not_relevant"  a JSON object with a boolean 'relevant'
\*   "bad_type"       a JSON object whose 'relevant' is the string "false"
\*   "not_dict"       JSON that is not an object (a list, a number)
\*   "unparsable"     json.loads raises, e.g. "Expecting value: line 1
\*                    column 1 (char 0)"
\*   "unparsable_429" json.loads raises with the offset 429 in its message,
\*                    e.g. "Extra data: line 1 column 430 (char 429)"
\*   "rate_limit"     the API raises its 429 rate_limit_exceeded error
\*   "error"          the API raises any other error
GroqAnswers == {"relevant", "not_relevant", "bad_type", "not_dict",
                "unparsable", "unparsable_429", "rate_limit", "error"}

\* the request raised before line 208 counted it
RaisedInRequest(answer) == answer \in {"rate_limit", "error"}

\* json.loads of line 225 raised
RaisedInParse(answer) == answer \in {"unparsable", "unparsable_429"}

\* line 232: "rate_limit_exceeded" in error_str or "429" in error_str, a
\* substring test on the message of whatever exception was caught
IsRateLimit(answer) == answer \in {"rate_limit", "unparsable_429"}

\* ----------------------------------------------------- NextdoorGroqFilter
\* the loop of line 249 ending one post early
MorePostsOffByOne(i, posts) == i < Len(posts)

\* line 249: the for loop of filter_posts has a post left to take
MorePosts(i, posts) == i <= Len(posts)

\* lines 249-253 and 269-270: the for loop of filter_posts takes the next
\* post and calls analyze_nextdoor_post, or returns relevant_posts
FilterNext ==
    /\ pc = "filter"
    /\ IF MorePosts(idx, unique_posts)
       THEN /\ callKeys' = <<>>
            /\ callAllLimited' = TRUE
            /\ callStart' = current_key_index
            /\ analysis' = "none"
            /\ answered' = "none"
            /\ invoked' = Append(invoked, idx)
            /\ callPosts' = <<>>
            /\ pc' = "analyze"
       ELSE /\ pc' = "report"
            /\ UNCHANGED <<callKeys, callAllLimited, callStart, analysis,
                           answered, invoked, callPosts>>
    /\ UNCHANGED <<pollVars, extractVars,
                   envVars, runVars, authVars, gistVars, codeVars,
                   searchVars, scrollVars, current_key_index,
                   daily_request_count, exhausted, requests, filterVars>>

\* line 236 going on to the following post
RetryArgumentNext(i) == i + 1

\* line 236: return self.analyze_nextdoor_post(post_text, author)
RetryArgument(i) == i

\* analyze_nextdoor_post (164-241): one request to Groq with the current
\* key, for the post filter_posts passed (line 253) or the retry passed on
\* (line 236).  A rate-limit error rotates the key and calls the function
\* again, or returns the exhausted verdict (line 239).
AnalyzeRequest ==
    /\ pc = "analyze"
    /\ requests' = requests + 1
    /\ callKeys' = Append(callKeys, current_key_index)
    /\ callPosts' = Append(callPosts,
                           IF callPosts = <<>> THEN idx
                           ELSE RetryArgument(callPosts[Len(callPosts)]))
    /\ \E answer \in GroqAnswers :
          LET counted == IF RaisedInRequest(answer) THEN daily_request_count
                         ELSE daily_request_count + 1
          IN
          /\ answered' = answer
          /\ callAllLimited' = (callAllLimited /\ IsRateLimit(answer))
          /\ IF IsRateLimit(answer)
             THEN IF CanRotate(current_key_index, nKeys)
                  THEN /\ current_key_index' = RotatedIndex(current_key_index)
                       /\ daily_request_count' = 0
                       /\ analysis' = analysis
                       /\ exhausted' = exhausted
                       /\ pc' = "analyze"
                  ELSE /\ analysis' = "all_keys_exhausted"
                       /\ exhausted' = TRUE
                       /\ daily_request_count' = counted
                       /\ current_key_index' = current_key_index
                       /\ pc' = "verdict"
             ELSE /\ daily_request_count' = counted
                  /\ analysis' = IF answer = "error" \/ RaisedInParse(answer)
                                 THEN "analysis_error" ELSE answer
                  /\ exhausted' = exhausted
                  /\ current_key_index' = current_key_index
                  /\ pc' = "verdict"
    /\ UNCHANGED <<pollVars, extractVars,
                   envVars, runVars, authVars, gistVars, codeVars,
                   searchVars, scrollVars, callStart, invoked, filterVars>>

\* line 255: analysis.get('relevant', False) taken as a truth value; the
\* non-empty string "false" counts as true
IsRelevant(a) == a \in {"relevant", "bad_type"}

\* line 256 leaving the verdict out
AttachedVerdictDropped(a) == "none"

\* line 256: post['analysis'] = analysis
AttachedVerdict(a) == a

\* line 249 moving on by two posts
NextPostSkips(i) == i + 2

\* line 249: for i, post in enumerate(posts)
NextPost(i) == i + 1

\* lines 255-267: keep the post when the verdict says relevant.  A verdict
\* that is not a JSON object makes .get raise; the loop continues.
FilterVerdict ==
    /\ pc = "verdict"
    /\ IF analysis # "not_dict" /\ IsRelevant(analysis)
       THEN LET post == [unique_posts[idx] EXCEPT
                             !.analysis = AttachedVerdict(analysis)] IN
            /\ unique_posts' = [unique_posts EXCEPT ![idx] = post]
            /\ relevant_posts' = Append(relevant_posts, post)
       ELSE UNCHANGED <<unique_posts, relevant_posts>>
    /\ idx' = NextPost(idx)
    /\ pc' = "filter"
    /\ UNCHANGED <<pollVars, extractVars,
                   envVars, runVars, authVars, gistVars, codeVars,
                   searchVars, scrollVars, groqVars, reportsSent,
                   zeroAlerts>>

\* lines 718-722 with send_email_report (311-337)
SendReport ==
    /\ pc = "report"
    /\ reportsSent' = IF relevant_posts # <<>> THEN reportsSent + 1
                      ELSE reportsSent
    /\ pc' = "login_ret"
    /\ UNCHANGED <<pollVars, extractVars,
                   envVars, runVars, authVars, gistVars, codeVars,
                   searchVars, scrollVars, groqVars, unique_posts, idx,
                   relevant_posts, zeroAlerts>>

\* ------------------------------------------------------ ends of the run
\* line 726 and lines 1639-1641
LoginReturn ==
    /\ pc = "login_ret"
    /\ result' = "true"
    /\ pc' = "finally"
    /\ UNCHANGED <<pollVars, extractVars,
                   envVars, driver, quitCalls, interrupted,
                   authVars, gistVars, codeVars, searchVars, scrollVars,
                   groqVars, filterVars>>

\* positions of _login_to_nextdoor where a driver error is not caught by an
\* inner handler
Unguarded == {"nav_feed", "credentials", "manual_poll", "manual_final",
              "after_login", "scroll_head", "scroll_move", "force_scroll"}

\* the handler of lines 728-730 marking the session Failed in every case
LoginRaiseOverwrites ==
    /\ pc \in Unguarded
    /\ session' = "Failed"
    /\ result' = "false"
    /\ pc' = "finally"
    /\ UNCHANGED <<pollVars, extractVars,
                   envVars, driver, quitCalls, interrupted,
                   submitted, url, loginCalls, gistVars, codeVars,
                   searchVars, scrollVars, groqVars, filterVars>>

\* lines 728-730: an Exception reaches the handler of _login_to_nextdoor
LoginRaise ==
    /\ pc \in Unguarded
    /\ session' = IF session \in Terminal THEN session ELSE "Failed"
    /\ result' = "false"
    /\ pc' = "finally"
    /\ UNCHANGED <<pollVars, extractVars,
                   envVars, driver, quitCalls, interrupted,
                   submitted, url, loginCalls, gistVars, codeVars,
                   searchVars, scrollVars, groqVars, filterVars>>

InWait == {"wait_create", "wait_notify", "wait_poll", "wait_sleep",
           "wait_delete"}

\* lines 1643-1645: KeyboardInterrupt anywhere inside the try of run_scan;
\* no "except Exception" handler on the way catches it
Interrupt ==
    /\ pc \notin {"start", "finally", "done"}
    /\ result' = "true"
    /\ interrupted' = TRUE
    /\ waitExit' = IF pc \in InWait THEN "interrupt" ELSE waitExit
    /\ pc' = "finally"
    /\ UNCHANGED <<pollVars, extractVars,
                   envVars, driver, quitCalls, authVars,
                   current_gist_id, docCreated, docExists, attempt,
                   waitReturn, deleteRequests, notifications, pollReads,
                   waitLocals, codeVars, searchVars, scrollVars, groqVars,
                   filterVars>>

\* lines 1651-1658
Finally ==
    /\ pc = "finally"
    /\ IF driver = "open"
       THEN /\ driver' = "quit"
            /\ quitCalls' = quitCalls + 1
       ELSE UNCHANGED <<driver, quitCalls>>
    /\ pc' = "done"
    /\ UNCHANGED <<pollVars, extractVars,
                   envVars, result, interrupted, authVars,
                   gistVars, codeVars, searchVars, scrollVars, groqVars,
                   filterVars>>

Next ==
    \/ SetupDriver
    \/ NavigateToFeed
    \/ SubmitCredentials
    \/ CheckFor2fa
    \/ Create2faGist
    \/ SendNotification
    \/ WriteCode
    \/ PollGist
    \/ WaitSleep
    \/ WaitRaise
    \/ Delete2faGist
    \/ Enter2faCode
    \/ ManualPoll
    \/ ManualFinalCheck
    \/ AfterLogin
    \/ SearchForTerm
    \/ ScrollIterate
    \/ ScrollMove
    \/ ForceScroll
    \/ ScrollReturn
    \/ DedupAll
    \/ FilterNext
    \/ AnalyzeRequest
    \/ FilterVerdict
    \/ SendReport
    \/ LoginReturn
    \/ LoginRaise
    \/ Interrupt
    \/ Finally

Spec == Init /\ [][Next]_vars

\* The scanner is one thread and every driver or remote call returns: as
\* long as the run has a next step, it takes one.
SpecLive == Spec /\ WF_vars(Next)

\* ------------------------------------------- the scroll loop on its own
\* _scroll_and_collect_posts called after a successful search, for every
\* budget and the full feed
InitScroll ==
    /\ Fresh
    /\ pc = "scroll_head"
    /\ driver = "open"
    /\ feed = ScrollFeed
    /\ max_scrolls \in 0..MaxBudget
    /\ session = "Authenticated"
    /\ submitted = TRUE
    /\ loginCalls = 1
    /\ searchCalls = 1
    /\ filtersApplied = 1
    /\ is_first_search = TRUE
    /\ searchReturn = "true"
    /\ harvested = <<>>
    /\ harvestDone = FALSE
    /\ unique_posts = <<>>
    /\ idx = 0

NextScroll ==
    \/ ScrollIterate
    \/ ScrollMove
    \/ ForceScroll
    \/ ScrollReturn
    \/ DedupAll

SpecScroll == InitScroll /\ [][NextScroll]_vars

\* --------------------------------------------- filter_posts on its own
MaxPosts == 3       \* largest number of posts handed to filter_posts

\* a post as the scroll loop and the tagging leave it
Harvested(t) ==
    [PostData(t) EXCEPT !.search_term = today_term, !.scroll_found = 1]

\* the post lists filter_posts can be called with at line 716
FilterInputs ==
    {ps \in UNION {[1..k -> {Harvested(t) : t \in Texts}] : k \in 1..MaxPosts} :
        UniquePosts(ps) = ps}

InitFilter ==
    /\ Fresh
    /\ pc = "filter"
    /\ driver = "open"
    /\ feed = Texts
    /\ max_scrolls = MaxBudget
    /\ session = "Authenticated"
    /\ submitted = TRUE
    /\ loginCalls = 1
    /\ searchCalls = 1
    /\ filtersApplied = 1
    /\ is_first_search = TRUE
    /\ searchReturn = "true"
    /\ unique_posts \in FilterInputs
    /\ harvested = unique_posts
    /\ harvestDone = TRUE
    /\ idx = 1

NextFilter ==
    \/ FilterNext
    \/ AnalyzeRequest
    \/ FilterVerdict
    \/ SendReport
    \/ LoginReturn

SpecFilter == InitFilter /\ [][NextFilter]_vars

\* --------------------------- the deduplication and what follows, alone
\* what _scroll_and_collect_posts can return (no two posts with the same
\* first 50 characters, line 1487), tagged by lines 663-664
HarvestOutputs ==
    {ps \in UNION {[1..k -> {Harvested(t) : t \in Texts}] : k \in 0..MaxPosts} :
        \A i, j \in 1..Len(ps) :
            i < j => RawKeyOf[ps[i].text] # RawKeyOf[ps[j].text]}

InitDedup ==
    /\ Fresh
    /\ nKeys = 1
    /\ github_token = FALSE
    /\ pc = "dedup"
    /\ driver = "open"
    /\ feed = Texts
    /\ max_scrolls = MaxBudget
    /\ session = "Authenticated"
    /\ submitted = TRUE
    /\ loginCalls = 1
    /\ searchCalls = 1
    /\ filtersApplied = 1
    /\ is_first_search = TRUE
    /\ searchReturn = "true"
    /\ harvested \in HarvestOutputs
    /\ harvestDone = TRUE
    /\ unique_posts = <<>>
    /\ idx = 0

NextDedup ==
    \/ DedupAll
    \/ FilterNext
    \/ AnalyzeRequest
    \/ FilterVerdict
    \/ SendReport
    \/ LoginReturn

SpecDedup == InitDedup /\ [][NextDedup]_vars

\* ------------------------------------------ _search_for_term on its own
InitSearch ==
    /\ Fresh
    /\ pc = "search"
    /\ driver = "open"
    /\ feed = RunFeed
    /\ max_scrolls = 0
    /\ session = "Authenticated"
    /\ submitted = TRUE
    /\ loginCalls = 1
    /\ searchCalls = 0
    /\ filtersApplied = 0
    /\ is_first_search = FALSE
    /\ searchReturn = "none"
    /\ harvested = <<>>
    /\ harvestDone = FALSE
    /\ unique_posts = <<>>
    /\ idx = 0

NextSearch == SearchCall

SpecSearch == InitSearch /\ [][NextSearch]_vars

\* ------------------------------------------ _poll_gist_for_code, alone
MaxLines == 2       \* most lines of a document written from scratch

\* the contents the document can have: as created, with the first line
\* replaced, or rewritten from scratch, with or without a final line feed
Documents ==
    {DocumentWith(first) : first \in PollLines}
    \cup {JoinLines(ls) \o tail :
            ls \in UNION {[1..k -> PollLines] : k \in 1..MaxLines},
            tail \in {<<>>, <<Newline>>}}

\* _poll_gist_for_code (799-841)
PollGistForCode ==
    /\ pc = "poll_read"
    /\ IF ~github_token \/ current_gist_id = "none"
       THEN polled' = NotPolled
       ELSE \E status \in {"200", "404", "error"} :
               polled' = IF status = "200" THEN PollCode(file_content)
                         ELSE Polled(status, FALSE, <<>>)
    /\ pc' = "poll_ret"
    /\ UNCHANGED <<envVars, runVars, authVars, gistVars, codeVars,
                   searchVars, scrollVars, groqVars, filterVars,
                   file_content, extractVars>>

InitPoll ==
    /\ Untouched
    /\ nKeys = 1
    /\ current_gist_id \in {"none", "gist"}
    /\ docCreated = (current_gist_id = "gist")
    /\ docExists = docCreated
    /\ file_content \in Documents
    /\ polled = NotPolled
    /\ NotExtracting
    /\ pc = "poll_read"
    /\ driver = "open"
    /\ feed = RunFeed
    /\ max_scrolls = 0
    /\ session = "AwaitingVerification"
    /\ submitted = TRUE
    /\ loginCalls = 1
    /\ searchCalls = 0
    /\ filtersApplied = 0
    /\ is_first_search = FALSE
    /\ searchReturn = "none"
    /\ harvested = <<>>
    /\ harvestDone = FALSE
    /\ unique_posts = <<>>
    /\ idx = 0

NextPoll == PollGistForCode

SpecPoll == InitPoll /\ [][NextPoll]_vars

\* ------------------------------------ _extract_nextdoor_posts, alone
\* everything but the extractor's own variables
outsideExtract ==
    <<envVars, runVars, authVars, gistVars, codeVars, searchVars,
      scrollVars, groqVars, filterVars, pollVars>>

\* what a selector applied to the page finds: a strategy and the containers
Applied(name, found) == [name |-> name, found |-> Len(found)]

\* the selectors of the page markup that can fit: a selector that fits
\* finds the containers of the page, one that does not finds none
Finds(containers) == {<<>>, containers}

\* lines 1179-1200: the page source is read and parsed and the main
\* content area is looked up; a driver or parser error is caught at 1425
ExtractStart ==
    /\ pc = "x_start"
    /\ \E outcome \in {"ok", "no_main", "error"} :
          IF outcome = "ok"
          THEN /\ pc' = "x_testid"
               /\ UNCHANGED <<extracted, extractExit>>
          ELSE /\ extracted' = <<>>
               /\ extractExit' = outcome
               /\ pc' = "x_done"
    /\ UNCHANGED <<outsideExtract, page, post_containers, strategies,
                   ai_state, detected_selector, raisedAt>>

\* the tests of lines 1207, 1211 and 1215 letting every strategy run
LadderContinuesAlways(found) == TRUE

\* lines 1207, 1211 and 1215: "if not post_containers"
LadderContinues(found) == found = <<>>

\* line 1204: Method 1, the data-testid of the search feed items
FindByTestId ==
    /\ pc = "x_testid"
    /\ \E found \in Finds(page) :
          /\ post_containers' = found
          /\ strategies' = Append(strategies, Applied("data-testid", found))
          /\ pc' = IF LadderContinues(found) THEN "x_class" ELSE "x_process"
    /\ UNCHANGED <<outsideExtract, page, ai_state, detected_selector,
                   raisedAt, extracted, extractExit>>

\* lines 1207-1208: Method 2, the class name
FindByClass ==
    /\ pc = "x_class"
    /\ \E found \in Finds(page) :
          /\ post_containers' = found
          /\ strategies' = Append(strategies, Applied("class", found))
          /\ pc' = IF LadderContinues(found) THEN "x_view" ELSE "x_process"
    /\ UNCHANGED <<outsideExtract, page, ai_state, detected_selector,
                   raisedAt, extracted, extractExit>>

\* lines 1211-1212: Method 3, the data-v3-view-type attribute
FindByViewType ==
    /\ pc = "x_view"
    /\ \E found \in Finds(page) :
          /\ post_containers' = found
          /\ strategies' = Append(strategies, Applied("view-type", found))
          /\ pc' = IF LadderContinues(found) THEN "x_ai" ELSE "x_process"
    /\ UNCHANGED <<outsideExtract, page, ai_state, detected_selector,
                   raisedAt, extracted, extractExit>>

\* line 1167: selector.startswith('.') or selector.startswith('[')
LooksLikeSelector(selector) ==
    StartsWith(selector, <<".">>) \/ StartsWith(selector, <<"[">>)

\* lines 1215-1217 with _detect_post_selector_with_ai (1134-1175): one
\* request to the model; its stripped answer is returned when it looks
\* like a selector, None when it does not or when the request raised.  The
\* request goes to groq_client.client directly (line 1157) and the handler
\* of lines 1173-1175 catches every error, a rate-limit error included,
\* without calling _rotate_api_key
DetectPostSelectorWithAi ==
    /\ pc = "x_ai"
    /\ \E raised \in BOOLEAN, answer \in AiAnswers :
          LET selector == IF raised THEN <<>> ELSE StripText(answer)
              accepted == ~raised /\ LooksLikeSelector(selector)
          IN /\ ai_state' = IF raised THEN "failed"
                            ELSE IF accepted THEN "accepted"
                            ELSE "rejected"
             /\ detected_selector' = IF accepted THEN selector ELSE <<>>
             /\ pc' = IF accepted /\ selector # <<>> THEN "x_apply"
                      ELSE "x_process"
    /\ UNCHANGED <<outsideExtract, page, post_containers, strategies,
                   raisedAt, extracted, extractExit>>

\* line 1228: re.match(r'\[([^=]+)="([^"]+)"\]', detected_selector)
AttributeMatch(selector) ==
    /\ StartsWith(selector, <<"[">>)
    /\ \E e \in 3..Len(selector), q \in 6..(Len(selector) - 1) :
          /\ e + 2 < q
          /\ \A k \in 2..(e - 1) : selector[k] # "="
          /\ selector[e] = "="
          /\ selector[e + 1] = "\""
          /\ \A k \in (e + 2)..(q - 1) : selector[k] # "\""
          /\ selector[q] = "\""
          /\ selector[q + 1] = "]"

\* lines 1218-1233: the detected selector is tried as a class or as an
\* attribute selector; one that is neither is not applied
ApplyDetectedSelector ==
    /\ pc = "x_apply"
    /\ IF StartsWith(detected_selector, <<".">>)
          \/ AttributeMatch(detected_selector)
       THEN \E found \in Finds(page) :
               /\ post_containers' = found
               /\ strategies' = Append(strategies, Applied("ai", found))
       ELSE UNCHANGED <<post_containers, strategies>>
    /\ pc' = "x_process"
    /\ UNCHANGED <<outsideExtract, page, ai_state, detected_selector,
                   raisedAt, extracted, extractExit>>

\* lines 1371-1377: post_data of a container that is a main post
PostOf(parsed) ==
    [text |-> parsed.text, author |-> parsed.author, search_term |-> "",
     scroll_found |-> 0, analysis |-> "none"]

\* the handler of lines 1386-1388 leaving the loop at the first error
SurvivorsUntilError(n, raised) ==
    {i \in 1..n : \A j \in raised : i < j}

\* lines 1257 and 1386-1388: the body of the loop is one try block whose
\* handler continues with the next container, so of n containers all are
\* processed to the end but those whose processing raised
Survivors(n, raised) == {i \in 1..n : i \notin raised}

\* lines 1256-1388: posts_data, the posts of the containers in page order;
\* a container whose processing raised (get_text, find, a regular
\* expression: all before the append of line 1379) gives no post
PostsData(containers, raised) ==
    LET done == Survivors(Len(containers), raised)
        parsed == [i \in 1..Len(containers) |->
                      IF i \in done THEN ContainerPostOf[containers[i]]
                      ELSE Parsed(FALSE, <<>>, <<>>)]
        kept == SelectSeq(parsed, LAMBDA r : r.kept)
    IN [i \in 1..Len(kept) |-> PostOf(kept[i])]

\* lines 1235-1427: the containers are processed one by one, duplicates are
\* removed and unique_posts is returned.  An error outside the try block of
\* the loop body (the debug listing of 1241-1246, the duplicate removal)
\* reaches the handler of line 1425, which returns [].
ProcessContainers ==
    /\ pc = "x_process"
    /\ \E raised \in SUBSET (1..Len(post_containers)),
          outcome \in {"posts", "error"} :
          IF outcome = "posts"
          THEN /\ raisedAt' = raised
               /\ extracted' = RemoveDuplicates(PostsData(post_containers,
                                                          raised))
               /\ extractExit' = "posts"
          ELSE /\ raisedAt' = raisedAt
               /\ extracted' = <<>>
               /\ extractExit' = "error"
    /\ pc' = "x_done"
    /\ UNCHANGED <<outsideExtract, page, post_containers, strategies,
                   ai_state, detected_selector>>

Pages == SeqsUpTo(PageTexts, MaxContainers)

InitExtract ==
    /\ NoGist
    /\ Untouched
    /\ nKeys = 1
    /\ github_token = FALSE
    /\ feed = RunFeed
    /\ max_scrolls = 1
    /\ driver = "open"
    /\ session = "Authenticated"
    /\ submitted = FALSE
    /\ loginCalls = 1
    /\ searchCalls = 1
    /\ filtersApplied = 1
    /\ is_first_search = TRUE
    /\ searchReturn = "true"
    /\ harvested = <<>>
    /\ harvestDone = FALSE
    /\ unique_posts = <<>>
    /\ idx = 0
    /\ page \in Pages
    /\ post_containers = <<>>
    /\ strategies = <<>>
    /\ ai_state = "unasked"
    /\ detected_selector = <<>>
    /\ raisedAt = {}
    /\ extracted = <<>>
    /\ extractExit = "none"
    /\ pc = "x_start"

NextExtract ==
    \/ ExtractStart
    \/ FindByTestId
    \/ FindByClass
    \/ FindByViewType
    \/ DetectPostSelectorWithAi
    \/ ApplyDetectedSelector
    \/ ProcessContainers

SpecExtract == InitExtract /\ [][NextExtract]_vars

\* ------------------------------------------- _enter_2fa_code on its own
MaxCodeLen == 7     \* longest code _enter_2fa_code is called with

\* _enter_2fa_code called with any code of up to MaxCodeLen characters
EnterCodeCall ==
    /\ pc = "enter_code"
    /\ \E len \in 0..MaxCodeLen, raised \in BOOLEAN,
          found \in 0..Len(PageFieldIds), failAt \in 1..(CodeLen + 1),
          u \in Urls \cup {"error"} :
          EnterBody(len, raised, found, failAt, u)
    /\ pc' = "enter_ret"
    /\ UNCHANGED <<pollVars, extractVars, envVars, runVars, session,
                   submitted, loginCalls, gistVars, manualReads, manualFinal,
                   searchVars, scrollVars, groqVars, filterVars>>

InitEnter ==
    /\ Fresh
    /\ pc = "enter_code"
    /\ driver = "open"
    /\ feed = RunFeed
    /\ max_scrolls = 0
    /\ session = "AwaitingVerification"
    /\ submitted = TRUE
    /\ loginCalls = 1
    /\ searchCalls = 0
    /\ filtersApplied = 0
    /\ is_first_search = FALSE
    /\ searchReturn = "none"
    /\ harvested = <<>>
    /\ harvestDone = FALSE
    /\ unique_posts = <<>>
    /\ idx = 0

NextEnter == EnterCodeCall

SpecEnter == InitEnter /\ [][NextEnter]_vars

\* ------------------- the scroll loop with _extract_nextdoor_posts in it
\* the pages the site shows while the loop scrolls: containers of two main
\* posts, one of them with a reply, and of a reply
HarvestPages == SeqsUpTo({PoolWithReply, PoolAgain, ThanksPost}, MaxContainers)

\* lines 1474-1482: the loop test and the call of _extract_nextdoor_posts
\* on the page as it is at that moment
ExtractCall ==
    /\ pc = "scroll_head"
    /\ IF BudgetLeft(scroll_count, max_scrolls)
       THEN /\ page' \in HarvestPages
            /\ pc' = "x_start"
       ELSE /\ page' = page
            /\ pc' = "scroll_ret"
    /\ UNCHANGED <<outsideExtract, post_containers, strategies, ai_state,
                   detected_selector, raisedAt, extracted, extractExit>>

\* lines 1482-1503: _extract_nextdoor_posts has returned, by whichever
\* return; its locals are gone and the loop goes on with the list
ExtractReturn ==
    /\ pc = "x_done"
    /\ TakePosts(extracted)
    /\ page' = <<>>
    /\ post_containers' = <<>>
    /\ strategies' = <<>>
    /\ ai_state' = "unasked"
    /\ detected_selector' = <<>>
    /\ raisedAt' = {}
    /\ extracted' = <<>>
    /\ extractExit' = "none"
    /\ UNCHANGED <<envVars, runVars, authVars, gistVars, codeVars,
                   searchVars, force_attempt, forced_height, harvested,
                   harvestDone, groqVars, filterVars, pollVars>>

NextHarvest ==
    \/ ExtractCall
    \/ ExtractStart
    \/ FindByTestId
    \/ FindByClass
    \/ FindByViewType
    \/ DetectPostSelectorWithAi
    \/ ApplyDetectedSelector
    \/ ProcessContainers
    \/ ExtractReturn
    \/ ScrollMove
    \/ ForceScroll
    \/ ScrollReturn
    \/ DedupAll

InitHarvest ==
    /\ InitScroll
    /\ nKeys = 1
    /\ github_token = FALSE

SpecHarvest == InitHarvest /\ [][NextHarvest]_vars

\* ================================================================ claims
\* the dedup key the claims speak of: lowercased first 50 characters
DedupKey(t) == Lower(Prefix(t, KeyLen))
DedupKeyOf == [t \in Texts |-> DedupKey(t)]

AllZero(log) == \A i \in 1..Len(log) : log[i] = 0
AllPositive(log) == \A i \in 1..Len(log) : log[i] >= 1
NoSharedKey(posts) ==
    \A i, j \in 1..Len(posts) :
        i < j => DedupKeyOf[posts[i].text] # DedupKeyOf[posts[j].text]

\* positions inside the login part of _login_to_nextdoor
LoginPcs == {"nav_feed", "credentials", "check_2fa", "wait_create",
             "wait_notify", "wait_poll", "wait_sleep", "wait_delete",
             "enter_code", "manual_poll", "manual_final"}
LoginEnded == loginCalls > 0 /\ pc \notin LoginPcs /\ ~interrupted

\* C1: on every exit of the verification-code wait that created a gist
\* (code found, timeout, exception, interrupt) the gist no longer exists in
\* the remote store, whatever the store answered to the DELETE.
C1_DocumentGoneOnExit ==
    (waitExit # "none" /\ docCreated) => ~docExists

\* C2: with the cursor on the first key and every request answered by a
\* rate-limit error, one analyze_nextdoor_post call makes exactly N requests,
\* one per key in pool order, and returns the exhausted verdict, which is
\* not relevant.
C2_RotationExhaustsPool ==
    (pc = "verdict" /\ callStart = 0 /\ callAllLimited)
        => /\ callKeys = [i \in 1..nKeys |-> i - 1]
           /\ analysis = "all_keys_exhausted"
           /\ ~IsRelevant(analysis)

C2_Witness ==
    /\ pc = "verdict"
    /\ callStart = 0
    /\ callAllLimited
    /\ nKeys = 3
    /\ Len(callKeys) = 3

\* C3: no two posts of the sequence returned by the scroll loop have the same
\* dedup key (lowercased first 50 characters of the text).
C3_HarvestHasNoSharedKey ==
    pc = "scroll_ret" => NoSharedKey(all_posts)

\* C4: when no iteration adds a post, the scroll loop returns after exactly 3
\* iterations, or after max_scrolls iterations when max_scrolls is below 3.
C4_StagnationEndsLoop ==
    (pc = "scroll_ret" /\ AllZero(addedLog))
        => scroll_count = Min(StagnationLimit, max_scrolls)

C4_Witness ==
    /\ pc = "scroll_ret"
    /\ AllZero(addedLog)
    /\ max_scrolls > StagnationLimit
    /\ scroll_count = StagnationLimit

\* C5: the scroll loop makes at most max_scrolls iterations and returns when
\* the budget is used up, also when every iteration added a post.
C5_BudgetBoundsLoop ==
    /\ [](scroll_count <= max_scrolls /\ Len(addedLog) = scroll_count)
    /\ [][(pc = "scroll_head" /\ scroll_count >= max_scrolls)
             => pc' = "scroll_ret"]_vars

C5_Witness ==
    /\ pc = "scroll_ret"
    /\ max_scrolls = 3
    /\ scroll_count = max_scrolls
    /\ AllPositive(addedLog)

C7_FailedRunStops ==
    session = "Failed"
        => /\ searchCalls = 0
           /\ filtersApplied = 0
           /\ scroll_count = 0
           /\ ~harvestDone
           /\ requests = 0
           /\ reportsSent = 0
           /\ zeroAlerts = 0
           /\ loginCalls = 1

C7_Witness ==
    /\ session = "Failed"
    /\ waitExit = "timeout"
    /\ pc = "done"

\* C8: after the six digits were typed the session becomes Authenticated only
\* if the location read afterwards has left the login path.
C8_CodeSubmissionLeavesLogin ==
    (typedDigits = CodeLen /\ session = "Authenticated")
        => (url \in Urls /\ ~HasLoginPath(url))

\* C9: the manual wait reads the location at most 60 times, stops at the
\* first read without "login", and the session is Authenticated exactly when
\* the read after the wait has no "login", Failed otherwise.
C9_ManualWait ==
    /\ [](/\ manualReads <= ManualWaitSeconds
          /\ (manualReads > 0 /\ LoginEnded)
                => /\ session = "Authenticated" <=> manualFinal = "left"
                   /\ session = "Failed" <=> manualFinal # "left")
    /\ [][(pc = "manual_poll" /\ manualReads' = manualReads + 1)
             => (pc' = "manual_poll" <=>
                    (HasLogin(url') /\ manualReads' < ManualWaitSeconds))]_vars

C9_Witness ==
    /\ manualReads = ManualWaitSeconds
    /\ manualFinal = "left"
    /\ session = "Authenticated"

\* C10: the key cursor never decreases, grows by exactly 1 with each
\* rotation, never returns to an earlier key and stays within 0..N-1.
C10_CursorMonotone ==
    /\ [](current_key_index \in 0..(nKeys - 1))
    /\ [][\/ current_key_index' = current_key_index
          \/ /\ current_key_index' = current_key_index + 1
             /\ daily_request_count' = 0]_vars

C10_Witness ==
    /\ current_key_index = nKeys - 1
    /\ nKeys = 3
    /\ idx = 3

\* C11: for a verification document that was created, the delete request is
\* issued exactly once by the time the wait has been left, on every exit
\* path; when no document was created no delete request is issued
C11_DeleteIssuedOnce ==
    /\ deleteRequests <= 1
    /\ ~docCreated => deleteRequests = 0
    /\ (docCreated /\ waitExit # "none") => deleteRequests = 1

\* the rate-limit signal of the remote service, and the other ways one
\* classification attempt can fail: remote error, unparsable response,
\* malformed verdict
RateLimitSignal(a) == a = "rate_limit"
OtherFailures == {"error", "unparsable", "unparsable_429", "not_dict",
                  "bad_type"}

\* C12: an attempt that fails for a reason other than a rate-limit signal
\* makes no rotation and no retry and yields the not-relevant verdict with
\* the error in its reason; the post is not kept and the loop goes on with
\* the next post
C12_FailureIsNotRelevant ==
    [][/\ (pc = "analyze" /\ requests' = requests + 1
                          /\ answered' \in OtherFailures)
            => /\ current_key_index' = current_key_index
               /\ pc' = "verdict"
               /\ analysis' = "analysis_error"
       /\ (pc = "verdict" /\ answered \in OtherFailures)
            => /\ relevant_posts' = relevant_posts
               /\ idx' = idx + 1
               /\ pc' = "filter"]_vars

\* C13: once the credential pool has been exhausted in a run, every post
\* classified afterwards is reported as not relevant
C13_ExhaustedMeansNotRelevant ==
    [][(exhausted /\ pc = "verdict") => relevant_posts' = relevant_posts]_vars

StrippedKey(t) == Strip(Lower(Prefix(t, KeyLen)))
StrippedKeyOf == [t \in Texts |-> StrippedKey(t)]

\* positions at which unique_posts has been handed to filter_posts, and
\* later to send_email_report
Handed == {"filter", "analyze", "verdict", "report", "login_ret"}

\* h[n] is the earliest post of its key in h
FirstOfKey(h, n, K(_)) == \A m \in 1..(n - 1) : K(h[m].text) # K(h[n].text)

\* u is the subsequence of h, in the order of h, made of the earliest post
\* of every key
IsEarliestSelection(u, h, K(_)) ==
    \E f \in [1..Len(u) -> 1..Len(h)] :
        /\ \A i, j \in 1..Len(u) : i < j => f[i] < f[j]
        /\ \A i \in 1..Len(u) :
              u[i].text = h[f[i]].text /\ FirstOfKey(h, f[i], K)
        /\ \A n \in 1..Len(h) :
              FirstOfKey(h, n, K) => \E i \in 1..Len(u) : f[i] = n

NoTwoWithKey(u, K(_)) ==
    \A i, j \in 1..Len(u) : i < j => K(u[i].text) # K(u[j].text)

\* C15 as first stated, with the key "lowercased first 50 characters": the
\* posts handed on have pairwise different keys and are the earliest post
\* of every key of the harvest, in harvest order
C15_UniqueByDedupKey ==
    pc \in Handed =>
        /\ NoTwoWithKey(unique_posts, LAMBDA t : DedupKeyOf[t])
        /\ IsEarliestSelection(unique_posts, harvested,
                               LAMBDA t : DedupKeyOf[t])

\* C15: with the key "lowercased first 50 characters with surrounding
\* whitespace stripped", the posts handed to filter_posts and to the report
\* have pairwise different keys and are the earliest post of every key of
\* the harvest, in harvest order
C15_UniqueByStrippedKey ==
    pc \in Handed =>
        /\ NoTwoWithKey(unique_posts, LAMBDA t : StrippedKeyOf[t])
        /\ IsEarliestSelection(unique_posts, harvested,
                               LAMBDA t : StrippedKeyOf[t])

C15_Witness ==
    /\ pc = "report"
    /\ Len(harvested) = 3
    /\ Len(unique_posts) = 2
    /\ \E i, j \in 1..Len(harvested) :
          /\ i < j
          /\ harvested[i].text = TextSpace
          /\ harvested[j].text = TextShort
    /\ \A i \in 1..Len(unique_posts) : unique_posts[i].text # TextShort

\* the first iteration in which a post with the dedup key of text t was
\* extracted
KeyFirstExtracted(t) ==
    LET seen == {first_extracted[u] :
                    u \in {v \in Texts : /\ DedupKeyOf[v] = DedupKeyOf[t]
                                         /\ first_extracted[v] > 0}}
    IN CHOOSE n \in seen : \A m \in seen : n <= m

\* C16: every post of the harvest output carries the search term of the run
\* and the number of the iteration in which its dedup key was first
\* extracted; a post already collected is never rewritten by a later
\* iteration; the output is in order of first discovery
C16_HarvestTags ==
    [][/\ pc = "scroll_ret" =>
             /\ \A i \in 1..Len(harvested') :
                   /\ harvested'[i].search_term = today_term
                   /\ harvested'[i].scroll_found =
                         KeyFirstExtracted(harvested'[i].text)
             /\ \A i, j \in 1..Len(harvested') :
                   i < j => harvested'[i].scroll_found
                               <= harvested'[j].scroll_found
       /\ pc = "scroll_head" =>
             /\ Len(all_posts') >= Len(all_posts)
             /\ \A i \in 1..Len(all_posts) : all_posts'[i] = all_posts[i]
      ]_vars

\* every mail the run has handed to the EmailSender
MailsSent == notifications + zeroAlerts + reportsSent

\* C17: a run in which authentication ended in Failed, or in which the
\* search could not be made, ends with a failure result and has sent a
\* message to the operator
C17_StructuralFailureReported ==
    (/\ pc = "done"
     /\ ~interrupted
     /\ (session = "Failed" \/ searchReturn = "false"))
        => (result = "false" /\ MailsSent >= 1)

\* C18: a run that acquired the browser driver has released it, by exactly
\* one quit call, when it returns; no run calls quit twice
C18_DriverReleasedOnce ==
    /\ quitCalls <= 1
    /\ (pc = "done" /\ driver # "none") => (driver = "quit" /\ quitCalls = 1)

\* C19: every run reaches its end, and no loop goes past its ceiling: six
\* polls of the verification document, sixty reads of the manual wait,
\* max_scrolls iterations with three big scrolls each, one request per
\* credential in a classification
C19_RunTerminates ==
    /\ <>(pc = "done")
    /\ [](/\ attempt <= max_attempts
          /\ pollReads <= max_attempts
          /\ manualReads <= ManualWaitSeconds
          /\ scroll_count <= max_scrolls
          /\ force_attempt <= ForcedScrolls
          /\ Len(callKeys) <= nKeys)

C19_Witness ==
    /\ pc = "done"
    /\ waitExit = "timeout"
    /\ pollReads = max_attempts

\* the decimal digits embedded in a line, and a value of exactly six decimal
\* digits
DecimalsOf(line) == SelectSeq(line, LAMBDA c : c \in DecimalDigits)
SixDecimalDigits(v) == Len(v) = CodeLen /\ DecimalsOf(v) = v

\* a line the claim lets a code be taken from: entirely six digits, or not
\* the sentinel, not an instruction line, with exactly six embedded digits
CodeLine(line) ==
    \/ SixDecimalDigits(line)
    \/ /\ line # Sentinel
       /\ ~StartsWith(line, InstructionsHead)
       /\ Len(DecimalsOf(line)) = CodeLen

\* the lines of the document as the poll looks at them
DocumentLines ==
    LET lines == SplitLines(file_content)
    IN [n \in 1..Len(lines) |-> Strip(lines[n])]

\* C20: a poll returns a code only if the value is exactly six decimal
\* digits taken from the first code line of the document; the untouched
\* document and the bare sentinel give no code; the content
\* "Instructions:\n123456\n" gives 123456
C20_PollReturnsSixDigits ==
    pc = "poll_ret" =>
        /\ polled.found =>
              /\ SixDecimalDigits(polled.code)
              /\ \E n \in 1..Len(DocumentLines) :
                    /\ CodeLine(DocumentLines[n])
                    /\ \A m \in 1..(n - 1) : ~CodeLine(DocumentLines[m])
                    /\ polled.code = DecimalsOf(DocumentLines[n])
        /\ file_content \in {UntouchedDocument, Sentinel} => ~polled.found
        /\ (/\ polled.status = "200"
            /\ file_content = JoinLines(<<InstructionsHead, SixDigits, <<>>>>))
              => polled = Polled("200", TRUE, SixDigits)

\* the indices 1..n in order
UpTo(n) == [i \in 1..n |-> i]

\* C21: filter_posts calls the classifier once for each deduplicated post,
\* in order; a request that is not the first of its call is sent only after
\* a rotation moved the cursor past the key of the previous request
C21_OneCallPerPost ==
    [][/\ invoked' \in {UpTo(idx' - 1), UpTo(idx')}
       /\ pc' = "report" => invoked' = UpTo(Len(unique_posts'))
       /\ (requests' = requests + 1 /\ callKeys # <<>>)
             => current_key_index = callKeys[Len(callKeys)] + 1]_vars

C21_Witness ==
    /\ pc = "report"
    /\ Len(unique_posts) = 3
    /\ requests > Len(unique_posts)

\* the posts filter_posts is done with
Processed == 1..Min(idx - 1, Len(unique_posts))

\* C22 as first stated: every post the pipeline has processed carries its
\* verdict, relevant or not
C22_EveryPostHasVerdict ==
    pc \in {"filter", "report", "login_ret"} =>
        \A i \in Processed : unique_posts[i].analysis # "none"

\* C22: a processed post carries the verdict returned for it exactly when
\* filter_posts kept it as relevant; a post judged not relevant, or whose
\* classification failed, carries none; reporting changes no post record
C22_VerdictOnKeptPosts ==
    [][/\ pc = "verdict" =>
             /\ unique_posts'[idx].analysis =
                   IF Len(relevant_posts') > Len(relevant_posts)
                   THEN analysis ELSE "none"
             /\ analysis = "relevant"
                   => relevant_posts' = Append(relevant_posts,
                                               unique_posts'[idx])
             /\ analysis \in {"not_relevant", "analysis_error",
                              "all_keys_exhausted", "not_dict"}
                   => relevant_posts' = relevant_posts
             /\ \A i \in 1..Len(unique_posts) :
                   i # idx => unique_posts'[i] = unique_posts[i]
       /\ pc = "report" =>
             /\ unique_posts' = unique_posts
             /\ relevant_posts' = relevant_posts]_vars

C22_Witness ==
    /\ pc = "login_ret"
    /\ reportsSent = 1
    /\ \E i, j \in 1..Len(unique_posts) :
          /\ unique_posts[i].analysis = "none"
          /\ unique_posts[j].analysis = "relevant"

\* ---------------------------------------------------------------- C23
GistPcs == {"wait_create", "wait_notify", "wait_poll", "wait_sleep",
            "wait_delete", "enter_code"}
ManualPcs == {"manual_poll", "manual_final"}

\* C23: when a verification challenge is found, the gist channel is entered
\* if and only if GITHUB_ACTIONS is 'true' and a token is configured, and
\* the manual wait is entered otherwise; a run that is not in both
\* conditions never creates a gist, never sends a 2FA notification and
\* never is inside the gist wait, and the manual wait keeps to its 60 reads
C23_ChannelChoice ==
    [][/\ (pc = "check_2fa" /\ session' = "AwaitingVerification") =>
             /\ (is_github_actions' /\ github_token) => pc' = "wait_create"
             /\ ~(is_github_actions' /\ github_token) => pc' = "manual_poll"
       /\ pc' \in GistPcs => (is_github_actions' /\ github_token)
       /\ pc' \in ManualPcs =>
             /\ ~(is_github_actions' /\ github_token)
             /\ manualReads' <= ManualWaitSeconds
       /\ ~(is_github_actions' /\ github_token) =>
             /\ ~docCreated' /\ notifications' = 0
             /\ current_gist_id' = "none" /\ pollReads' = 0]_vars

C23_Witness ==
    /\ pc = "after_login" /\ manualFinal = "left"
    /\ github_token /\ ~is_github_actions
    /\ ~docCreated /\ notifications = 0

\* ---------------------------------------------------------------- C24
\* C24: when the location read after opening the news feed has "news_feed"
\* and no "login", the login part goes straight to its end as
\* Authenticated (and to the credentials step for every other location);
\* a run that never typed credentials never checks for a challenge, never
\* waits for a code, and never creates a gist or sends a 2FA notification
C24_AlreadyAdmitted ==
    [][/\ pc = "nav_feed" /\ pc' # "finally" =>
             IF HasNewsFeed(url') /\ ~HasLogin(url')
             THEN /\ session' = "Authenticated" /\ pc' = "after_login"
                  /\ ~submitted'
             ELSE pc' = "credentials" /\ session' = session
       /\ ~submitted' =>
             /\ pc' \notin {"check_2fa"} \cup GistPcs \cup ManualPcs
             /\ ~docCreated' /\ notifications' = 0 /\ pollReads' = 0
             /\ typedDigits' = 0 /\ manualReads' = 0
             /\ current_gist_id' = "none"]_vars

C24_Witness ==
    /\ pc = "done" /\ session = "Authenticated" /\ result = "true"
    /\ ~interrupted /\ ~submitted /\ ~docCreated /\ notifications = 0

\* ---------------------------------------------------------------- C26
\* C26: _wait_for_2fa_code reads the gist at most max_attempts = 6 times;
\* while it loops every read so far yielded no code; the read that yields a
\* code ends the loop with that code and no read follows it; the loop ends
\* with the timeout exactly after 6 reads without a code; and every return
\* of the wait without a code ends the login part in Failed
C26_BoundedWait ==
    [][/\ pollReads' <= max_attempts
       /\ pc' \in {"wait_poll", "wait_sleep"} => pollReads' = attempt'
       /\ (pc = "wait_poll" /\ pollReads' = pollReads + 1) =>
             \/ waitReturn' = "code" /\ pc' = "wait_delete"
             \/ /\ waitReturn' = waitReturn /\ pc' = "wait_sleep"
                /\ attempt' = attempt + 1
       /\ waitReturn = "code" => pollReads' \in {pollReads, 0}
       /\ (pc = "wait_poll" /\ waitReturn' = "timeout") =>
             pollReads = max_attempts /\ pollReads' = pollReads
       /\ (pc = "wait_poll" /\ pollReads = max_attempts
              /\ pc' \notin {"finally", "wait_poll"}) =>
             waitReturn' \in {"timeout", "exception"}
       /\ (pc = "wait_delete" /\ waitReturn # "code" /\ pc' # pc) =>
             /\ pc' = "finally"
             /\ session' = "Failed" \/ interrupted'
             /\ ~interrupted' => result' = "false"]_vars

C26_Witness ==
    /\ pc = "finally" /\ waitExit = "timeout" /\ pollReads = max_attempts
    /\ session = "Failed" /\ result = "false"

\* ---------------------------------------------------------------- C27
\* C27: a call of analyze_nextdoor_post that starts with the cursor at
\* callStart in a pool of nKeys keys sends at most nKeys - callStart
\* requests; every request of the call carries the post the call was made
\* for; each retry uses the key after the one of the request before it; and
\* the requests of a call are one more than its rotations: a rotation is
\* followed by one retry and a retry is made only after a rotation
C27_RetriesFollowRotation ==
    [][/\ Len(callKeys') <= nKeys - callStart'
       /\ Len(callPosts') = Len(callKeys')
       /\ \A i \in 1..Len(callPosts') :
             /\ pc' \in {"analyze", "verdict"} => callPosts'[i] = idx'
             /\ callKeys'[i] = callStart' + (i - 1)
       /\ pc' = "analyze" =>
             Len(callKeys') = current_key_index' - callStart'
       /\ pc' = "verdict" =>
             Len(callKeys') = current_key_index' - callStart' + 1
       /\ current_key_index' # current_key_index =>
             /\ pc = "analyze" /\ pc' = "analyze"
             /\ current_key_index' = current_key_index + 1]_vars

C27_Witness ==
    /\ pc = "verdict" /\ nKeys = 3 /\ callStart = 1
    /\ callKeys = <<1, 2>> /\ callPosts = <<2, 2>>
    /\ analysis = "all_keys_exhausted"

\* ---------------------------------------------------------------- C28
\* the number of zeros at the end of a log of added-post counts
RECURSIVE TrailingZeros(_)
TrailingZeros(log) ==
    IF log = <<>> \/ log[Len(log)] # 0 THEN 0
    ELSE 1 + TrailingZeros(SubSeq(log, 1, Len(log) - 1))

\* C28: an iteration of the scroll loop that added a post sets
\* no_new_posts_count to 0 and one that added none raises it by 1; the
\* counter is the number of zero-post iterations since the last productive
\* one and stays in 0..3; the loop breaks for stagnation exactly when the
\* three most recent iterations each added nothing
C28_StagnationCounter ==
    /\ [](/\ no_new_posts_count \in 0..StagnationLimit
          /\ no_new_posts_count = TrailingZeros(addedLog))
    /\ [][(pc = "scroll_head" /\ scroll_count' = scroll_count + 1) =>
             LET n == Len(addedLog')
                 added == addedLog'[n]
             IN /\ added > 0 => no_new_posts_count' = 0
                /\ added = 0 =>
                      no_new_posts_count' = no_new_posts_count + 1
                /\ pc' = "scroll_ret" <=>
                      /\ n >= StagnationLimit
                      /\ \A i \in (n - StagnationLimit + 1)..n :
                            addedLog'[i] = 0]_vars

C28_Witness ==
    /\ pc = "scroll_move"
    /\ addedLog = <<0, 0, 1, 0>>
    /\ no_new_posts_count = 1

\* ---------------------------------------------------------------- C29
\* C29: after an unchanged page height the loop makes at most
\* ForcedScrolls = 3 big-scroll attempts; while it is still making them
\* every attempt so far found the height unchanged, and the attempt that
\* finds it grown is the last one.  The height check and the big scrolls
\* leave all_posts, no_new_posts_count and scroll_count alone and never
\* end the loop: they are followed by the next test of the while loop, and
\* the counter and the posts change only by an extraction or at the return.
C29_ForcedScrolls ==
    /\ [](/\ force_attempt <= ForcedScrolls
          /\ forced_height # "none" => force_attempt > 0)
    /\ [][/\ (pc = "force_scroll"
                 /\ forced_height \in {"grew", "grew_on_retry"}) =>
                /\ pc' # "force_scroll"
                /\ pc' = "scroll_head" => force_attempt' = 0
          /\ (pc = "force_scroll" /\ pc' = "force_scroll") =>
                /\ forced_height \in {"none", "same"}
                /\ force_attempt' = force_attempt + 1
          /\ pc \in {"scroll_move", "force_scroll"} =>
                /\ pc' \in {"scroll_head", "force_scroll", "finally"}
                /\ UNCHANGED <<all_posts, no_new_posts_count, scroll_count,
                               addedLog>>
          /\ (all_posts' # all_posts
                 \/ no_new_posts_count' # no_new_posts_count) =>
                pc \in {"scroll_head", "scroll_ret"}]_vars

C29_Witness ==
    /\ pc = "force_scroll"
    /\ force_attempt = 2
    /\ forced_height = "grew_on_retry"
    /\ all_posts # <<>>
    /\ no_new_posts_count = 2

\* ---------------------------------------------------------------- C25
\* the post of the claim: author "Jane Doe" and the text without the reply
ClaimedPost ==
    [text |-> PoolBody,
     author |-> <<"J", "a", "n", "e", " ", "D", "o", "e">>,
     search_term |-> "", scroll_found |-> 0, analysis |-> "none"]

\* C25: a page whose only container has the text "Jane DoeStudio City ·
\* 3 hr agoNeed a reliable pool guy, anyone have recs?2Bob SmithEncino"
\* gives, when a selector finds the container and nothing raises, exactly
\* one post, with author "Jane Doe" and text "Need a reliable pool guy,
\* anyone have recs?"
C25_PoolPostExtracted ==
    (/\ pc = "x_done"
     /\ page = <<PoolWithReply>>
     /\ post_containers = page
     /\ extractExit = "posts"
     /\ raisedAt = {})
        => extracted = <<ClaimedPost>>

C25_Witness ==
    /\ pc = "x_done"
    /\ page = <<PoolWithReply>>
    /\ post_containers = page
    /\ extractExit = "posts"
    /\ raisedAt = {}
    /\ Len(extracted) = 1
    /\ extracted[1].text = PoolBody

\* ---------------------------------------------------------------- C30
StrategyOrder == <<"data-testid", "class", "view-type", "ai">>

\* C30: the selectors are applied in the order data-testid, class name,
\* view type, discovered selector, each only when every selector before it
\* found no container; the discovery request is made only after the three
\* fixed selectors found none; the discovered selector is applied only when
\* the answer was accepted and starts with "." or "["; and after a rejected
\* or failed discovery the extractor returns the empty list, by its normal
\* return unless the steps that follow raised
C30_SelectorLadder ==
    /\ Len(strategies) <= Len(StrategyOrder)
    /\ \A i \in 1..Len(strategies) :
          /\ strategies[i].name = StrategyOrder[i]
          /\ \A j \in 1..(i - 1) : strategies[j].found = 0
    /\ ai_state # "unasked" =>
          /\ Len(strategies) >= 3
          /\ \A j \in 1..3 : strategies[j].found = 0
    /\ Len(strategies) = 4 =>
          /\ ai_state = "accepted"
          /\ detected_selector # <<>>
          /\ detected_selector[1] \in {".", "["}
    /\ (pc = "x_done" /\ ai_state \in {"failed", "rejected"}) =>
          /\ Len(strategies) = 3
          /\ extracted = <<>>
          /\ extractExit \in {"posts", "error"}

C30_Witness ==
    /\ pc = "x_done"
    /\ Len(strategies) = 4
    /\ strategies[4].found = 2
    /\ detected_selector = AttributeAnswer
    /\ extracted # <<>>

\* ---------------------------------------------------------------- C31
\* the containers left when those at the given indices are taken away
RECURSIVE DropAt(_, _, _)
DropAt(containers, raised, i) ==
    IF i > Len(containers) THEN <<>>
    ELSE (IF i \in raised THEN <<>> ELSE <<containers[i]>>)
         \o DropAt(containers, raised, i + 1)

\* C31: an error while one container is processed skips that container
\* only: the extractor returns what it returns, without any error, for the
\* same containers with the failing ones taken away, so the posts of the
\* containers before and after it are there.  An error of the extraction as
\* a whole makes it return the empty list.  Whichever way the extraction
\* returned, the scroll loop takes its list like any other: the turn is
\* counted, the posts collected so far stay in their order, the posts
\* returned are in the collection afterwards, and the loop goes on to
\* scroll, or leaves by its stagnation rule when this was the third turn
\* in a row without a new post; nothing ends the harvest by an error.
C31_ContainerErrorsSkipped ==
    /\ [](pc = "x_done" =>
            /\ extractExit = "posts" =>
                  extracted = RemoveDuplicates(
                      PostsData(DropAt(post_containers, raisedAt, 1), {}))
            /\ extractExit # "posts" => extracted = <<>>)
    /\ [][/\ pc = "x_process" => pc' = "x_done"
          /\ pc = "x_done" =>
                /\ pc' \in {"scroll_move", "scroll_ret"}
                /\ scroll_count' = scroll_count + 1
                /\ SubSeq(all_posts', 1, Len(all_posts)) = all_posts
                /\ \A i \in 1..Len(extracted) :
                      \E j \in 1..Len(all_posts') :
                          RawKeyOf[all_posts'[j].text]
                              = RawKeyOf[extracted[i].text]
                /\ extracted = <<>> => all_posts' = all_posts
                /\ pc' = "scroll_ret" =>
                      no_new_posts_count' >= StagnationLimit]_vars

\* the second of two containers is all that is left of a page whose first
\* container raised, in a turn that follows one which collected posts
C31_Witness ==
    /\ pc = "x_done"
    /\ Len(post_containers) = 2
    /\ raisedAt = {1}
    /\ ContainerPostOf[post_containers[1]].kept
    /\ extracted # <<>>
    /\ all_posts # <<>>

\* ---------------------------------------------------------------- C32
\* C32: when the document cannot be created the wait returns None at
\* once: no notification was sent, no read was made, and the login ends in
\* Failed with the run returning False.  A read that fails (a status other
\* than 200, an error of the request) is one more attempt like a read that
\* found no code: the loop sleeps and goes on, nothing is returned and the
\* session stays as it is.  The timeout is only returned after max_attempts
\* reads, however many of them failed, unless an error outside the reads
\* ended the wait before.  A wait that ended without a code, for whichever
\* of these reasons, leaves the login Failed and no search is made.
C32_ChannelFailureIsTimeout ==
    /\ [](waitExit = "no_gist" =>
            /\ notifications = 0
            /\ pollReads = 0
            /\ ~docCreated
            /\ session = "Failed"
            /\ result = "false")
    /\ [][failedReads' = failedReads + 1 =>
            /\ pollReads' = pollReads + 1
            /\ attempt' = attempt + 1
            /\ pc' = "wait_sleep"
            /\ waitReturn' = waitReturn
            /\ session' = session]_vars
    /\ [](waitReturn = "timeout" =>
            /\ attempt = max_attempts
            /\ pollReads = max_attempts)
    /\ []((waitExit \in {"no_gist", "timeout", "exception"}) =>
            /\ session = "Failed"
            /\ result = "false"
            /\ searchCalls = 0
            /\ typedDigits = 0)

\* every read of a wait failed and the wait timed out
C32_Witness ==
    /\ pc = "done"
    /\ waitExit = "timeout"
    /\ failedReads = max_attempts
    /\ session = "Failed"

\* ---------------------------------------------------------------- C36
\* C36: in the wait for the code every read that returns no code is
\* followed by the sleep of SleepSeconds, the read that uses up the last
\* attempt included, and the loop makes no read after that sleep: reads
\* happen at 0, 30, ..., 150 seconds, the timeout is returned at 180 seconds
\* after max_attempts reads, and a code the operator writes into the
\* document after the last read is never returned by the wait.
C36_SleepAfterEveryRead ==
    /\ [][(pollReads' = pollReads + 1 /\ waitReturn' # "code") =>
             pc' = "wait_sleep"]_vars
    /\ [][(pc = "wait_sleep" /\ pc' = "wait_poll") =>
             /\ elapsed' = elapsed + SleepSeconds
             /\ pollReads' = pollReads]_vars
    /\ [][pollReads' = pollReads + 1 =>
             /\ pollReads < max_attempts
             /\ lastReadAt' = SleepSeconds * pollReads
             /\ elapsed = lastReadAt']_vars
    /\ [](waitReturn = "timeout" =>
             /\ pollReads = max_attempts
             /\ lastReadAt = SleepSeconds * (max_attempts - 1)
             /\ elapsed = SleepSeconds * max_attempts)
    /\ [](codeWrittenAfter = max_attempts =>
             /\ waitReturn # "code"
             /\ waitExit # "code"
             /\ session # "Authenticated")

\* the operator wrote the code during the sleep that follows the last
\* read, and the wait timed out
C36_Witness ==
    /\ pc = "done"
    /\ codeWrittenAfter = max_attempts
    /\ waitExit = "timeout"
    /\ elapsed = SleepSeconds * max_attempts
    /\ session = "Failed"

\* ---------------------------------------------------------------- C37
\* C37: one wait for the code sends at most one notification, and only
\* with the document created and before any read; a wait that came to its
\* loop (it returns the code or the timeout) has sent exactly one.  Whether
\* the mail was delivered or not, the loop starts polling, and a wait that
\* ends after an undelivered mail has issued its DELETE request.
C37_NotifiedOnce ==
    /\ [](/\ notifications <= 1
          /\ notifications = 1 => docCreated
          /\ pollReads > 0 => notifications = 1
          /\ waitReturn \in {"code", "timeout"} => notifications = 1
          /\ (delivered = "failed" /\ waitExit # "none"
                 /\ waitExit # "interrupt") => deleteRequests = 1)
    /\ [][notifications' # notifications =>
             /\ pc = "wait_notify"
             /\ docCreated
             /\ pollReads = 0
             /\ notifications' = 1
             /\ pc' = "wait_poll"]_vars

\* the mail was not delivered; the loop polled six times all the same and
\* the document was deleted
C37_Witness ==
    /\ pc = "done"
    /\ delivered = "failed"
    /\ waitExit = "timeout"
    /\ pollReads = max_attempts
    /\ deleteRequests = 1

\* ---------------------------------------------------------------- C35
\* C35: when the read of the location in the check for a verification
\* challenge raises, the login ends in Failed and returns at once, so that
\* no search and no harvest follow.
C35_CheckErrorFailsLogin ==
    [][(pc = "check_2fa" /\ url' = "error") =>
          /\ session' = "Failed"
          /\ pc' = "finally"
          /\ result' = "false"]_vars

\* ---------------------------------------------------------------- C39
\* C39: a run that returns True has ended its authentication in
\* Authenticated, has submitted its search, and was not interrupted; so a
\* run whose authentication Failed, whose search box was not found or which
\* the operator interrupted returns False.
C39_SuccessMeansScanned ==
    (pc = "done" /\ result = "true") =>
        /\ session = "Authenticated"
        /\ searchReturn = "true"
        /\ ~interrupted

\* C40: once _enter_2fa_code has returned, the list of field ids it worked
\* with has six usable ids (the discovered ones, or the six fallback ids when
\* discovery did not provide six), digit i went to field i of that list, a
\* code whose length is not 6 touched no field, and fewer than six typed
\* digits are a failure.
C40_SixFieldsOrFallback ==
    enterReturn # "none" =>
        /\ Len(input_ids) >= CodeLen
        /\ typedFields = SubSeq(input_ids, 1, typedDigits)
        /\ (code_len # CodeLen => typedFields = <<>>)
        /\ (typedDigits < CodeLen => enterReturn = "false")

\* C33: the key cursor changes only when a classification request met the
\* rate-limit signal of the remote service: a classification that succeeds
\* or fails for another reason, the selector-discovery request (rate-limited
\* or not), authentication and harvesting leave it as it is
C33_CursorChangesOnRateLimitOnly ==
    [][current_key_index' # current_key_index
          => /\ pc = "analyze"
             /\ requests' = requests + 1
             /\ RateLimitSignal(answered')]_vars

\* the phase a position of the run belongs to: 1 authentication, 2 search,
\* 3 harvesting, 4 deduplication, 5 classification, 6 report, 7 the end
Phase(p) ==
    IF p = "search" THEN 2
    ELSE IF p \in {"scroll_head", "scroll_move", "force_scroll",
                   "scroll_ret"} THEN 3
    ELSE IF p = "dedup" THEN 4
    ELSE IF p \in {"filter", "analyze", "verdict"} THEN 5
    ELSE IF p = "report" THEN 6
    ELSE IF p \in {"login_ret", "finally", "done"} THEN 7
    ELSE 1

\* C34: the run never goes back to an earlier phase; a search is made and
\* posts are extracted only while the session is Authenticated, extraction
\* only after the search; a classification request is sent only after the
\* harvest loop has returned; the report is sent only after filter_posts
\* has called the classifier for every deduplicated post, and at most once
C34_PhasesInOrder ==
    /\ [](reportsSent <= 1)
    /\ [](Phase(pc) \in 2..6 => session = "Authenticated")
    /\ [][/\ Phase(pc') >= Phase(pc)
          /\ searchCalls' # searchCalls
                => session = "Authenticated" /\ Phase(pc) = 2
          /\ scroll_count' = scroll_count + 1
                => /\ session = "Authenticated"
                   /\ searchReturn = "true"
                   /\ Phase(pc) = 3
          /\ requests' # requests => harvestDone /\ Phase(pc) = 5
          /\ Phase(pc') = 6 => invoked' = UpTo(Len(unique_posts'))
          /\ reportsSent' # reportsSent
                => /\ pc = "report"
                   /\ idx = Len(unique_posts) + 1
                   /\ invoked = UpTo(Len(unique_posts))
                   /\ requests >= Len(unique_posts)]_vars

C34_Witness ==
    /\ pc = "done"
    /\ session = "Authenticated"
    /\ searchCalls = 1
    /\ Len(harvested) = 2
    /\ Len(unique_posts) = 1
    /\ invoked = <<1>>
    /\ requests = 2
    /\ reportsSent = 1

\* C38: filter_posts keeps a post exactly when the verdict returned for it
\* has relevant = true, appending it in the order of classification; the
\* report is sent exactly when the kept posts are not empty; a harvest that
\* returns no post is followed by one zero-posts alert and by no request to
\* the classifier
C38_ReportIsRelevantSubset ==
    /\ [](harvestDone /\ harvested = <<>>
             => zeroAlerts = 1 /\ requests = 0 /\ reportsSent = 0)
    /\ [](harvestDone /\ harvested # <<>> => zeroAlerts = 0)
    /\ [][/\ (pc = "verdict" /\ pc' = "filter") =>
                relevant_posts' =
                   IF analysis = "relevant"
                   THEN Append(relevant_posts, unique_posts'[idx])
                   ELSE relevant_posts
          /\ (pc = "report" /\ pc' = "login_ret") =>
                /\ relevant_posts' = relevant_posts
                /\ reportsSent' = IF relevant_posts # <<>> THEN 1 ELSE 0
          /\ ~(pc = "report" /\ pc' = "login_ret")
                => reportsSent' = reportsSent]_vars

====
